---- MODULE Spec2Model ----
(***************************************************************************)
(* The execution engine of the flow library: FlowBuilder.build and         *)
(* FlowExecutor.execute / executeStep / executeWithRetry /                 *)
(* executeSingleStep, with the observer as a recorded sequence of          *)
(* notifications; and the handler made by `parallel` with its merges.      *)
(*                                                                         *)
(* Conventions.  An omitted optional number (timeout, stepTimeout,         *)
(* backoffMultiplier, maxDelayMs) is 0: the code tests these with          *)
(* truthiness (`if (x)`, `x || d`), so an omitted value and 0 take the     *)
(* same branch; an explicit stepTimeout of 0 in a retry policy is not      *)
(* among the inputs.  An optional object (retryOptions) is a sequence of   *)
(* length 0 or 1.  Time is a counter of milliseconds that advances only    *)
(* while the run is suspended: in a handler or in a backoff wait.          *)
(***************************************************************************)
EXTENDS Integers, Sequences, FiniteSets, TLC

\* ---------------------------------------------------------------- bounds
MaxSteps    == 2   \* longest step list
MaxAttempts == 3   \* largest maxAttempts of a retry policy
MaxDur      == 2   \* longest finite handler duration, in ms
MaxEvents   == 2   \* most payloads one event handler produces
MaxHandlers == 2   \* most handlers given to one parallel combinator

\* ------------------------------------------------------------ vocabulary
Keys        == {"a", "b"}
StepNames   == <<"s1", "s2", "s3", "s4">>
BreakNames  == <<"break_0", "break_1", "break_2", "break_3">>
Channels    == <<"c1", "c2", "c3", "c4">>
FlowName    == "flow"

VARIABLES
    config,      \* FlowConfig: [name, steps]
    input,       \* the caller's input object, which context.input refers to
    mapper,      \* FlowBuilder.outputMapper is set
    options,     \* FlowExecutionOptions of the call
    deps,        \* which capabilities the dependency bag exposes
    pc,          \* where the run is
    idx,         \* position of the for-loop in config.steps
    context,     \* FlowContext: [state, meta, signal]; signal is <<>>: execute sets none
    startTime,   \* Date.now() at the start of execute
    now,         \* the clock
    attempt,     \* executeWithRetry: attempt
    delay,       \* executeWithRetry: delay
    inflight,    \* the attempt in progress: "handler" or "missing" (capability absent)
    obs,         \* the notifications the observer has received, in order
    calls,       \* the handler invocations made, in order, with what each observed
    waits,       \* the backoff waits made, in order
    published,   \* the events handed to eventPublisher.publish, in order
    verdicts,    \* the answers retryOptions.shouldRetry has given, in order
    warnings,    \* the console.warn calls made, in order
    outcome,     \* what the built flow's execute has settled to
    par,         \* one call of a handler made by `parallel`: its handlers and result
    chain        \* the methods called on the builder since createFlow, in order

vars == <<config, input, mapper, options, deps, pc, idx, context, startTime, now,
          attempt, delay, inflight, obs, calls, waits, published, verdicts,
          warnings, outcome, par, chain>>

\* The variables of the engine, which a call of a combinator leaves alone.
engine == <<config, input, mapper, options, deps, pc, idx, context, startTime, now,
            attempt, delay, inflight, obs, calls, waits, published, verdicts,
            warnings, outcome, chain>>

\* ------------------------------------------------------------------ data
EmptyState == [k \in {} |-> 0]

\* A merge in which the keys already in the state win.
MergeKeepFirst(state, result) ==
    [k \in (DOMAIN state) \cup (DOMAIN result) |->
        IF k \in DOMAIN state THEN state[k] ELSE result[k]]

\* { ...state, ...result }
Merge(state, result) ==
    [k \in (DOMAIN state) \cup (DOMAIN result) |->
        IF k \in DOMAIN result THEN result[k] ELSE state[k]]

Undefined == [kind |-> "undefined", val |-> EmptyState]
Obj(m)    == [kind |-> "object", val |-> m]

\* What the handler of the step at position i may return: nothing, or an
\* object over some keys whose values name the writer.
HandlerResults(i) ==
    {Undefined} \cup {Obj([k \in K |-> i]) : K \in (SUBSET Keys) \ {{}}}

\* The input of the call: an object with a property and a nested object.
Input == [frozen |-> FALSE, value |-> 0,
          nested |-> [frozen |-> FALSE, value |-> 0]]

\* Object.freeze(obj): the object's own properties become read-only; the
\* objects it refers to are not touched.
Freeze(obj) == [obj EXCEPT !.frozen = TRUE]

\* An assignment of v by a handler to a property of the input (target
\* "top") or of its nested object (target "nested"): it has no effect on a
\* frozen object.
Assign(obj, target, v) ==
    CASE target = "top" ->
           IF obj.frozen THEN obj ELSE [obj EXCEPT !.value = v]
      [] target = "nested" ->
           IF obj.nested.frozen THEN obj ELSE [obj EXCEPT !.nested.value = v]
      [] OTHER -> obj

\* FlowEvent: what an event handler may hand back.  eventType "" stands
\* for a payload without an event type; correlationId is <<>> when absent.
FlowEvent(eventType, correlationId) ==
    [eventType |-> eventType, correlationId |-> correlationId]
WellFormedEvent == FlowEvent("created", <<>>)
EventPayloads ==
    {WellFormedEvent, FlowEvent("created", <<"own">>), FlowEvent("", <<>>)}

\* What the handler of the event step s may return: up to MaxEvents payloads.
Produced(s) ==
    IF s.emits = "anything"
      THEN UNION {[1..n -> EventPayloads] : n \in 0..MaxEvents}
      ELSE {[j \in 1..n |-> WellFormedEvent] : n \in 0..MaxEvents}

\* executeEvent: `if (event && event.eventType)`, the positions of the
\* payloads that are published, in order.
RECURSIVE PublishableFrom(_, _)
PublishableFrom(events, i) ==
    IF i > Len(events) THEN <<>>
    ELSE IF events[i].eventType # ""
           THEN <<i>> \o PublishableFrom(events, i + 1)
           ELSE PublishableFrom(events, i + 1)
Publishable(events) == PublishableFrom(events, 1)

\* A publishEvent that spreads the event over the correlationId:
\* { correlationId: context.meta.correlationId, ...event }
publishEventKeepsOwnId(ev, channel, ctx) ==
    [channel |-> channel,
     event |-> IF ev.correlationId # <<>> THEN ev
               ELSE [ev EXCEPT !.correlationId = ctx.meta.correlationId]]

\* publishEvent: publisher.publish(channel, { ...event, correlationId:
\* context.meta.correlationId })
publishEvent(ev, channel, ctx) ==
    [channel |-> channel,
     event |-> [ev EXCEPT !.correlationId = ctx.meta.correlationId]]

NoError == [name |-> "", flowName |-> "", stepName |-> "", timeoutMs |-> 0,
            origin |-> <<>>]

\* An error raised by a handler: its kind, and which invocation raised it.
HandlerError(kind, step, att) ==
    [name |-> kind, flowName |-> "", stepName |-> "", timeoutMs |-> 0,
     origin |-> <<step, att>>]

\* An error raised by a hook of the observer while the step was in its
\* attempt att.
HookError(step, att) ==
    [name |-> "HookError", flowName |-> "", stepName |-> "", timeoutMs |-> 0,
     origin |-> <<step, att>>]

\* new TimeoutError(message, flowName, stepName, timeoutMs)
TimeoutError(flowName, stepName, timeoutMs) ==
    [name |-> "TimeoutError", flowName |-> flowName, stepName |-> stepName,
     timeoutMs |-> timeoutMs, origin |-> <<>>]

\* new FlowExecutionError(message, flowName, stepName)
FlowExecutionError(flowName, stepName) ==
    [name |-> "FlowExecutionError", flowName |-> flowName,
     stepName |-> stepName, timeoutMs |-> 0, origin |-> <<>>]

\* --------------------------------------------------------- the step list
\* RetryOptions
RetryOptions(maxAttempts, delayMs, backoffMultiplier, maxDelayMs, shouldRetry, stepTimeout) ==
    [maxAttempts |-> maxAttempts, delayMs |-> delayMs,
     backoffMultiplier |-> backoffMultiplier, maxDelayMs |-> maxDelayMs,
     shouldRetry |-> shouldRetry, stepTimeout |-> stepTimeout]

\* `writes` tells what the step's handler assigns to: nothing, a property
\* of ctx.input ("top"), a property of an object the input holds ("nested")
\* or a key of ctx.state ("state").  `channel` is the channel of an event step, and `emits`
\* tells what its handler returns: well-formed events without a
\* correlationId ("events") or any payload ("anything").
StepDef(name, type, condition, breakReturnValue) ==
    [name |-> name, type |-> type, condition |-> condition,
     retryOptions |-> <<>>, breakReturnValue |-> breakReturnValue,
     writes |-> "none", channel |-> "", emits |-> "events"]

\* FlowBuilder.validate / step / stepIf / transaction / event / breakIf
validate(name)    == StepDef(name, "validate", FALSE, FALSE)
step(name)        == StepDef(name, "step", FALSE, FALSE)
\* FlowBuilder.step with a handler that assigns to ctx.input
mutator(name, target) == [step(name) EXCEPT !.writes = target]
\* FlowBuilder.step with a handler that assigns to a key of ctx.state
scribbler(name)   == [step(name) EXCEPT !.writes = "state"]
stepIf(name)      == StepDef(name, "step", TRUE, FALSE)
transaction(name) == StepDef(name, "transaction", FALSE, FALSE)
event(channel, name) ==
    [StepDef(name, "event", FALSE, FALSE) EXCEPT !.channel = channel]
\* FlowBuilder.event with a handler that may return payloads without an
\* eventType or with a correlationId of its own
emitter(channel, name) == [event(channel, name) EXCEPT !.emits = "anything"]
breakIf(length, returnValue) ==
    StepDef(BreakNames[length + 1], "break", FALSE, returnValue)

\* FlowBuilder.withRetry: the retry configuration goes on the last step,
\* whatever its type.
withRetry(head, retry) == [head EXCEPT !.retryOptions = <<retry>>]

\* The steps the builder can put at position i without a retry policy.
PlainSteps(i) ==
    {validate(StepNames[i]), step(StepNames[i]), stepIf(StepNames[i]),
     transaction(StepNames[i]), event(Channels[i], StepNames[i]),
     breakIf(i - 1, FALSE), breakIf(i - 1, TRUE)}

\* Retry policies: every backoff shape, with and without a retry predicate;
\* and the policies that differ in the step deadline only.
BackoffPolicies ==
    {RetryOptions(n, d, m, c, FALSE, 0) :
        n \in 1..MaxAttempts, d \in {1, 3}, m \in {0, 1, 2}, c \in {0, 2}}
PredicatePolicies ==
    {RetryOptions(n, 1, 0, 0, TRUE, 0) : n \in 1..MaxAttempts}
DeadlinePolicies ==
    {RetryOptions(n, 1, 0, 0, FALSE, t) : n \in 1..MaxAttempts, t \in {0, 1}}

FixedDelayPolicies ==
    {RetryOptions(n, 1, 0, 0, FALSE, 0) : n \in 1..MaxAttempts}

\* The steps a retry policy is attached to: the kinds the builder lets
\* withRetry follow, event steps apart; or compute steps only where the
\* policy shapes the backoff or sets a deadline.
RetryableSteps(i) ==
    {validate(StepNames[i]), step(StepNames[i]), transaction(StepNames[i])}
EventSteps(i) == {event(Channels[i], StepNames[i])}
ComputeSteps(i) == {step(StepNames[i])}
RetriedSteps(i, heads(_), policies) ==
    {withRetry(s, r) : s \in heads(i), r \in policies}

\* Step lists without retry policies: every list of 1..MaxSteps steps over S.
SeqsOver(S(_), n) == {s \in [1..n -> UNION {S(i) : i \in 1..n}] :
                        \A i \in 1..n : s[i] \in S(i)}
PlainFlows == UNION {SeqsOver(PlainSteps, n) : n \in 1..MaxSteps}

\* One step more: plain steps between a first and a last compute step.
SandwichFlows ==
    {f \in SeqsOver(PlainSteps, MaxSteps + 1) :
        f[1] = step(StepNames[1]) /\ f[MaxSteps + 1] = step(StepNames[MaxSteps + 1])}

\* Compute steps whose handlers may assign to the input.
InputSteps(i) ==
    {step(StepNames[i]), mutator(StepNames[i], "top"), mutator(StepNames[i], "nested")}
InputFlows == UNION {SeqsOver(InputSteps, n) : n \in 1..MaxSteps}

\* Step lists with one event step whose handler returns any payloads:
\* alone, after a compute step, or before one.
EmitterFlows ==
    {<<emitter(Channels[1], StepNames[1])>>,
     <<emitter(Channels[1], StepNames[1]), step(StepNames[2])>>,
     <<step(StepNames[1]), emitter(Channels[2], StepNames[2])>>}

\* The steps of the lists run under a deadline.
TimedSteps(i) == {step(StepNames[i]), stepIf(StepNames[i]), breakIf(i - 1, FALSE)}
TimedFlows == UNION {SeqsOver(TimedSteps, n) : n \in 1..MaxSteps}

\* Step lists with one retried step: alone, after a compute step, or before one.
RetryFlows(heads(_), policies) ==
    UNION {{<<r>>, <<r, step(StepNames[2])>>} : r \in RetriedSteps(1, heads, policies)}
    \cup {<<step(StepNames[1]), r>> : r \in RetriedSteps(2, heads, policies)}

\* ------------------------------------------------------ options and deps
Options(timeout, stepTimeout, throwOnError, throwOnMissingDatabase, throwOnMissingEventPublisher) ==
    [timeout |-> timeout, stepTimeout |-> stepTimeout,
     throwOnError |-> throwOnError,
     correlationId |-> <<>>,
     observer |-> "returns",
     errorHandling |->
        [throwOnMissingDatabase |-> throwOnMissingDatabase,
         throwOnMissingEventPublisher |-> throwOnMissingEventPublisher]]

DefaultOptions == Options(0, 0, TRUE, TRUE, TRUE)

\* options.correlationId: <<>> when the caller gives none.
WithCorrelationId(o, id) == [o EXCEPT !.correlationId = <<id>>]

\* options.observer: an observer whose hooks all return ("returns"), one
\* whose onStepStart hook throws ("throwsOnStepStart") or one whose
\* onFlowComplete hook throws ("throwsOnFlowComplete").
WithObserver(o, observer) == [o EXCEPT !.observer = observer]

Deps(db, eventPublisher) == [db |-> db, eventPublisher |-> eventPublisher]
AllDeps == Deps(TRUE, TRUE)
NoDeps  == Deps(FALSE, FALSE)

\* The calls made on a flow: <<options, deps>>.
PlainCalls ==
    {<<DefaultOptions, AllDeps>>,
     <<Options(0, 0, FALSE, TRUE, TRUE), AllDeps>>,
     <<DefaultOptions, NoDeps>>,
     <<Options(0, 0, TRUE, FALSE, FALSE), NoDeps>>}

TimedCalls ==
    {<<Options(1, 0, TRUE, TRUE, TRUE), AllDeps>>,
     <<Options(0, 1, TRUE, TRUE, TRUE), AllDeps>>,
     <<Options(1, 2, FALSE, TRUE, TRUE), AllDeps>>}

RetryCalls ==
    {<<DefaultOptions, AllDeps>>,
     <<Options(0, 0, FALSE, TRUE, TRUE), AllDeps>>,
     <<DefaultOptions, NoDeps>>,
     <<Options(0, 0, TRUE, FALSE, FALSE), NoDeps>>}

EmitterCalls ==
    {<<DefaultOptions, AllDeps>>,
     <<WithCorrelationId(DefaultOptions, "req-1"), AllDeps>>}

RetryTimedCalls ==
    {<<DefaultOptions, AllDeps>>,
     <<Options(0, 2, TRUE, TRUE, TRUE), AllDeps>>}

\* Whether any deadline is configured for the run: without one no decision
\* of the engine reads the clock, and handlers are taken to last 0 ms.
HasDeadline ==
    \/ options.timeout # 0
    \/ options.stepTimeout # 0
    \/ \E i \in 1..Len(config.steps) :
          /\ config.steps[i].retryOptions # <<>>
          /\ config.steps[i].retryOptions[1].stepTimeout # 0

Durations == IF HasDeadline THEN 0..MaxDur ELSE {0}

\* ------------------------------------------------ the parallel combinator
\* The values a handler's result holds at a key: a primitive, an array, an
\* object that is not plain (a Date, a Map) and a plain object with
\* properties of its own.
Prim(n)     == [kind |-> "prim", n |-> n, items |-> <<>>, props |-> EmptyState]
List(q)     == [kind |-> "list", n |-> 0, items |-> q, props |-> EmptyState]
NonPlain(n) == [kind |-> "nonplain", n |-> n, items |-> <<>>, props |-> EmptyState]
Plain(m)    == [kind |-> "plain", n |-> 0, items |-> <<>>, props |-> m]
NoValue     == [kind |-> "undefined", n |-> 0, items |-> <<>>, props |-> EmptyState]

\* The order in which `for (const key in obj)` visits the keys.
KeyOrder == <<"a", "b">>

\* isPlainObject(value)
isPlainObject(value) == value.kind = "plain"

\* What the handler at position i of a parallel combinator may hand back:
\* nothing, or a plain object whose values name the handler; at key "a" any
\* kind of value, one level of nesting included.
NestedValues(i) ==
    {Plain([k \in K |-> v]) : K \in {{"a"}, {"b"}}, v \in {Prim(i), List(<<i>>)}}
Values(i) == {Prim(i), List(<<i>>), NonPlain(i)} \cup NestedValues(i)
ParallelResults(i) ==
    {NoValue, Plain([k \in {"b"} |-> Prim(i)])}
    \cup {Plain([k \in {"a"} |-> v]) : v \in Values(i)}
    \cup {Plain([k \in Keys |-> IF k = "a" THEN v ELSE Prim(i)]) : v \in Values(i)}

\* A handler given to `parallel`: an async function that settles later, with
\* a result or with an error; or a plain function, which returns or throws
\* while it is being called.
Handler(sync, fails, result) == [sync |-> sync, fails |-> fails, result |-> result]
ParallelHandlers(i) ==
    {Handler(FALSE, FALSE, r) : r \in ParallelResults(i)}
    \cup {Handler(FALSE, TRUE, NoValue), Handler(TRUE, TRUE, NoValue),
          Handler(TRUE, FALSE, Plain([k \in {"a"} |-> Prim(i)]))}

\* MergeStrategy
MergeStrategies == {"shallow", "error-on-conflict", "deep"}

\* An error of a call of the combinator: raised by the handler at a position,
\* or (handler 0) by the merge, which names a key.
ParallelError(handler, key) == [name |-> "Error", handler |-> handler, key |-> key]
NoParallelError == [name |-> "", handler |-> 0, key |-> ""]

\* Object.assign({}, ...results): the own properties of each result that is
\* an object, copied in order.
RECURSIVE ObjectAssignFrom(_, _, _)
ObjectAssignFrom(target, results, i) ==
    IF i > Len(results) THEN target
    ELSE ObjectAssignFrom(
            IF results[i].kind = "plain" THEN Merge(target, results[i].props) ELSE target,
            results, i + 1)
ObjectAssign(results) == Plain(ObjectAssignFrom(EmptyState, results, 1))

\* The error-on-conflict loop of `parallel`: the keys as they are visited,
\* result after result, and the first one that `allKeys` already has
\* ("" when there is none).
RECURSIVE VisitedKeys(_, _)
VisitedKeys(results, i) ==
    IF i > Len(results) THEN <<>>
    ELSE (IF results[i].kind = "plain"
            THEN SelectSeq(KeyOrder, LAMBDA k : k \in DOMAIN results[i].props)
            ELSE <<>>)
         \o VisitedKeys(results, i + 1)

\* A conflict check that never finds a key twice.
ConflictingKeyForgetful(results) == ""

ConflictingKey(results) ==
    LET visited == VisitedKeys(results, 1)
        again == {j \in 1..Len(visited) : \E h \in 1..(j - 1) : visited[h] = visited[j]}
    IN IF again = {} THEN ""
       ELSE visited[CHOOSE j \in again : \A h \in again : j <= h]

\* A concatenation that puts the later array first.
SpreadLaterFirst(existingVal, newVal) == List(newVal.items \o existingVal.items)

\* [...existingVal, ...newVal]
Spread(existingVal, newVal) == List(existingVal.items \o newVal.items)

\* deepMerge(...objects): the objects that are not plain are passed over;
\* of each other one every own key is visited: an array is appended to the
\* array already there or copied, a plain object is merged into the plain
\* object already there or into {}, anything else overwrites.
RECURSIVE deepMerge(_)
deepMerge(objects) ==
    LET RECURSIVE into(_, _)
        into(result, i) ==
            IF i > Len(objects) THEN result
            ELSE IF ~isPlainObject(objects[i]) THEN into(result, i + 1)
            ELSE LET obj == objects[i].props
                     has(key) == key \in DOMAIN result
                     merged(key) ==
                        LET newVal == obj[key]
                        IN IF newVal.kind = "list"
                             THEN IF has(key) /\ result[key].kind = "list"
                                    THEN Spread(result[key], newVal)
                                    ELSE newVal
                           ELSE IF isPlainObject(newVal)
                             THEN IF has(key) /\ isPlainObject(result[key])
                                    THEN deepMerge(<<result[key], newVal>>)
                                    ELSE deepMerge(<<Plain(EmptyState), newVal>>)
                           ELSE newVal
                 IN into([key \in (DOMAIN result) \cup (DOMAIN obj) |->
                             IF key \in DOMAIN obj THEN merged(key) ELSE result[key]],
                         i + 1)
    IN Plain(into(EmptyState, 1))

\* The calls of a combinator: `parallel(name, strategy, ...handlers)` with
\* up to MaxHandlers handlers, not yet called.
Parallel(strategy, handlers) ==
    [strategy |-> strategy, handlers |-> handlers,
     status |-> [i \in 1..Len(handlers) |-> "idle"],
     seen |-> [i \in 1..Len(handlers) |-> <<>>],
     order |-> <<>>,
     outcome |-> [status |-> "idle", value |-> NoValue, error |-> NoParallelError]]
Combinators ==
    {Parallel(st, h) : st \in MergeStrategies,
                       h \in UNION {SeqsOver(ParallelHandlers, n) : n \in 1..MaxHandlers}}
NoCombinator == Parallel("shallow", <<>>)

\* ------------------------------------------------------------------ Init
\* A flow has been built (FlowBuilder.build) and execute is about to be
\* called on it.
Built(flows, mappers, callSet) ==
    /\ config \in {[name |-> FlowName, steps |-> s] : s \in flows}
    /\ mapper \in mappers
    /\ \E c \in callSet : options = c[1] /\ deps = c[2]

\* The rest of the state before execute is called.
Constructed ==
    /\ input = Input
    /\ pc = "built"
    /\ idx = 0
    /\ context = [state |-> EmptyState,
                  meta |-> [flowName |-> config.name, currentStep |-> "",
                            correlationId |-> <<>>],
                  signal |-> <<>>]
    /\ startTime = 0
    /\ now = 0
    /\ attempt = 0
    /\ delay = 0
    /\ inflight = "none"
    /\ obs = <<>>
    /\ calls = <<>>
    /\ waits = <<>>
    /\ published = <<>>
    /\ verdicts = <<>>
    /\ warnings = <<>>
    /\ outcome = [status |-> "pending", kind |-> "", val |-> EmptyState,
                  error |-> NoError, executed |-> <<>>]
    /\ chain = <<>>

Init ==
    /\ \/ Built(PlainFlows, BOOLEAN, PlainCalls)
       \/ Built(SandwichFlows, BOOLEAN, {<<DefaultOptions, AllDeps>>})
       \/ Built(TimedFlows, {FALSE}, TimedCalls)
       \/ Built(RetryFlows(ComputeSteps, BackoffPolicies), {FALSE}, RetryCalls)
       \/ Built(RetryFlows(RetryableSteps, PredicatePolicies \cup FixedDelayPolicies),
                {FALSE}, RetryCalls)
       \/ Built(RetryFlows(EventSteps, FixedDelayPolicies), {FALSE}, RetryCalls)
       \/ Built(RetryFlows(ComputeSteps, DeadlinePolicies), {FALSE}, RetryTimedCalls)
       \/ Built(InputFlows, {FALSE}, {<<DefaultOptions, AllDeps>>})
       \/ Built(EmitterFlows, {FALSE}, EmitterCalls)
    /\ Constructed
    /\ par = NoCombinator

\* ------------------------------------------------------------- shorthand
Steps    == config.steps
NumSteps == Len(config.steps)
Step     == config.steps[idx]

\* One notification to the observer; `at` is the clock when it was made and
\* `n` is the attempt of the step during which it was made (0 outside attempts).
Note(ev, stepName, n, att, maxAtt, err, result, t) ==
    [ev |-> ev, step |-> stepName, n |-> n, attempt |-> att, maxAttempts |-> maxAtt,
     err |-> err, result |-> result, at |-> t]

StateValue(state) == [kind |-> "state", val |-> state]
\* breakStep.breakReturnValue(context): a value of the caller's own making,
\* tagged with the state it was computed from.
BreakValue(state) == [kind |-> "breakValue", val |-> state]
\* { __breakConditionMet: false }
BreakMarker       == [kind |-> "marker", val |-> [k \in {"__breakConditionMet"} |-> 0]]

\* FlowExecutionResult: what FlowExecutor.execute returns.
FlowExecutionResult(value, didBreak) == <<[value |-> value, didBreak |-> didBreak]>>

\* The value the built flow's execute resolves with: `kind` tells a state
\* from a break value and from a mapper's output, `val` is the state it was
\* made from, `executed` is what FlowExecutor.execute returned.
Resolved(kind, value, didBreak) ==
    [status |-> "resolved", kind |-> kind, val |-> value.val, error |-> NoError,
     executed |-> FlowExecutionResult(value, didBreak)]

\* An execute that applies the mapper to a break value as well.
BuiltExecuteMapsBreak(value, didBreak) ==
    IF mapper
      THEN Resolved("mapped", value, didBreak)
      ELSE Resolved(value.kind, value, didBreak)

\* FlowDefinition.execute, after executor.execute has returned `value`:
\* a break value is returned as it is, otherwise the mapper, if any, is applied.
BuiltExecute(value, didBreak) ==
    IF didBreak
      THEN Resolved(value.kind, value, didBreak)
      ELSE IF mapper
             THEN Resolved("mapped", value, didBreak)
             ELSE Resolved(value.kind, value, didBreak)

\* FlowExecutor.execute throws and so does the built flow's execute.
Rejected(error) ==
    [status |-> "rejected", kind |-> "", val |-> EmptyState, error |-> error,
     executed |-> <<>>]

\* A step deadline in which the run's default wins over the step's own.
StepTimeoutOfRunFirst(s) ==
    IF options.stepTimeout # 0
      THEN options.stepTimeout
      ELSE IF s.retryOptions # <<>> THEN s.retryOptions[1].stepTimeout ELSE 0

\* step.retryOptions?.stepTimeout ?? options?.stepTimeout
StepTimeoutOf(s) ==
    IF s.retryOptions # <<>> /\ s.retryOptions[1].stepTimeout # 0
      THEN s.retryOptions[1].stepTimeout
      ELSE options.stepTimeout

Min(x, y) == IF x <= y THEN x ELSE y

\* A backoff that forgets the cap.
NextDelayUncapped(d, r) ==
    IF r.backoffMultiplier # 0 THEN d * r.backoffMultiplier ELSE d

\* executeWithRetry: the delay after a wait of `d` under policy r.
\* (maxDelayMs || Number.MAX_SAFE_INTEGER: no cap when maxDelayMs is 0/omitted.)
NextDelay(d, r) ==
    IF r.backoffMultiplier # 0
      THEN IF r.maxDelayMs # 0
             THEN Min(d * r.backoffMultiplier, r.maxDelayMs)
             ELSE d * r.backoffMultiplier
      ELSE d

\* options.timeout is set and Date.now() - startTime exceeds it
FlowTimedOut ==
    /\ options.timeout # 0
    /\ (now - startTime) > options.timeout

\* A check that knows of the database only.
CapabilityMissingDbOnly(s) == s.type = "transaction" /\ ~deps.db

\* Which attempt an executeSingleStep call makes of capability-bound steps.
CapabilityMissing(s) ==
    \/ s.type = "transaction" /\ ~deps.db
    \/ s.type = "event" /\ ~deps.eventPublisher

\* ------------------------------------------------- the catch of execute
\* A catch that rethrows whatever options.throwOnError says.
RunFailsAlwaysThrows(o, error, t) ==
    /\ obs' = Append(o, Note("onFlowError", "", 0, 0, 0, error, Undefined, t))
    /\ outcome' = Rejected(error)
    /\ pc' = "done"
    /\ now' = t
    /\ inflight' = "none"
    /\ UNCHANGED <<context, idx, attempt, delay, waits>>

\* A catch that does not tell the observer.
RunFailsSilently(o, error, t) ==
    /\ obs' = o
    /\ outcome' = IF options.throwOnError = FALSE
                    THEN BuiltExecute(StateValue(context.state), FALSE)
                    ELSE Rejected(error)
    /\ pc' = "done"
    /\ now' = t
    /\ inflight' = "none"
    /\ UNCHANGED <<context, idx, attempt, delay, waits>>

\* A catch that wraps the error in a FlowExecutionError before rethrowing.
RunFailsWrapped(o, error, t) ==
    /\ obs' = Append(o, Note("onFlowError", "", 0, 0, 0, error, Undefined, t))
    /\ outcome' = IF options.throwOnError = FALSE
                    THEN BuiltExecute(StateValue(context.state), FALSE)
                    ELSE Rejected([FlowExecutionError(config.name, context.meta.currentStep)
                                     EXCEPT !.origin = error.origin])
    /\ pc' = "done"
    /\ now' = t
    /\ inflight' = "none"
    /\ UNCHANGED <<context, idx, attempt, delay, waits>>

\* o: the notifications made so far in this action.
RunFails(o, error, t) ==
    /\ obs' = Append(o, Note("onFlowError", "", 0, 0, 0, error, Undefined, t))
    /\ outcome' = IF options.throwOnError = FALSE
                    THEN BuiltExecute(StateValue(context.state), FALSE)
                    ELSE Rejected(error)
    /\ pc' = "done"
    /\ now' = t
    /\ inflight' = "none"
    /\ UNCHANGED <<context, idx, attempt, delay, waits>>

\* ---------------------------------------------- executeSingleStep, begun
\* onStepStart, which may throw; then the step's handler is invoked unless
\* its capability is missing.  s: the step, cur: meta.currentStep as the handler reads it.
StartAttempt(o, s, att, cur, t) ==
    /\ obs' = Append(o, Note("onStepStart", s.name, att, 0, 0, NoError, Undefined, t))
    /\ IF options.observer = "throwsOnStepStart"
         THEN /\ inflight' = "hook"
              /\ calls' = calls
         ELSE IF CapabilityMissing(s)
         THEN /\ inflight' = "missing"
              /\ calls' = calls
         ELSE /\ inflight' = "handler"
              /\ calls' = Append(calls,
                     [step |-> s.name, attempt |-> att, state |-> context.state,
                      input |-> input, currentStep |-> cur, seen |-> Len(o), at |-> t,
                      returned |-> <<>>, result |-> <<>>,
                      signal |-> context.signal, wrote |-> FALSE, settled |-> FALSE])
    /\ pc' = "running"
    /\ now' = t

\* ------------------------------------------- an attempt that has succeeded
\* A completion that reports the state after the merge in place of the result.
AttemptSucceededReportsState(result, t) ==
    LET merged == IF result.kind = "object" /\ Step.type # "event"
                    THEN [context EXCEPT !.state = Merge(context.state, result.val)]
                    ELSE context
    IN /\ obs' = Append(obs, Note("onStepComplete", Step.name, attempt, 0, 0, NoError,
                                  StateValue(merged.state), t))
       /\ context' = merged
       /\ idx' = idx + 1
       /\ pc' = "loop"
       /\ now' = t
       /\ inflight' = "none"
       /\ UNCHANGED <<outcome, attempt, delay, waits, verdicts>>

\* onStepComplete, back in execute the merge of the result, the next step.
AttemptSucceeded(result, t) ==
    /\ obs' = Append(obs, Note("onStepComplete", Step.name, attempt, 0, 0, NoError, result, t))
    /\ context' = IF result.kind = "object" /\ Step.type # "event"
                    THEN [context EXCEPT !.state = Merge(context.state, result.val)]
                    ELSE context
    /\ idx' = idx + 1
    /\ pc' = "loop"
    /\ now' = t
    /\ inflight' = "none"
    /\ UNCHANGED <<outcome, attempt, delay, waits, verdicts>>

\* A catch that counts the attempts from 0.
GiveUpOneLate(verdict, error, r) ==
    \/ ~verdict
    \/ error.name = "ValidationError"
    \/ attempt = r.maxAttempts + 1

\* A catch that asks neither the predicate nor the kind of the error.
GiveUpOnlyWhenExhausted(verdict, error, r) ==
    attempt = r.maxAttempts

\* executeWithRetry, the catch: the error is rethrown when shouldRetry
\* refuses it, when it is a ValidationError, or after the last attempt.
GiveUp(verdict, error, r) ==
    \/ ~verdict
    \/ error.name = "ValidationError"
    \/ attempt = r.maxAttempts

\* --------------------------------------------- an attempt that has failed
\* A notification that numbers the attempt about to be made.
RetryNoteOfNextAttempt(stepName, att, r, error, t) ==
    Note("onStepRetry", stepName, att, att + 1, r.maxAttempts, error, Undefined, t)

\* observer?.onStepRetry?.(step.name, attempt, retryOptions.maxAttempts, lastError)
RetryNote(stepName, att, r, error, t) ==
    Note("onStepRetry", stepName, att, att, r.maxAttempts, error, Undefined, t)

\* An error has left executeSingleStep, with o the notifications made so
\* far: without a retry policy it reaches the catch of execute; with one,
\* executeWithRetry decides between giving up and waiting.
Caught(o, error, t) ==
    IF Step.retryOptions = <<>>
      THEN RunFails(o, error, t) /\ verdicts' = verdicts
      ELSE LET r == Step.retryOptions[1]
           IN \E verdict \in (IF r.shouldRetry THEN BOOLEAN ELSE {TRUE}) :
                /\ verdicts' = IF r.shouldRetry
                                 THEN Append(verdicts, [step |-> Step.name, n |-> attempt,
                                                        verdict |-> verdict])
                                 ELSE verdicts
                /\ IF GiveUp(verdict, error, r)
                     THEN RunFails(o, error, t)
                     ELSE /\ obs' = Append(o, RetryNote(Step.name, attempt, r, error, t))
                          /\ waits' = Append(waits, [step |-> Step.name, ms |-> delay,
                                                     after |-> attempt])
                          /\ pc' = "waiting"
                          /\ now' = t
                          /\ inflight' = "none"
                          /\ UNCHANGED <<context, idx, attempt, delay, outcome>>

\* The catch of executeSingleStep: onStepError, and the error is rethrown.
AttemptFailed(error, t) ==
    Caught(Append(obs, Note("onStepError", Step.name, attempt, 0, 0, error, Undefined, t)),
           error, t)

\* ================================================================ actions
\* FlowDefinition.execute -> FlowExecutor.execute, up to the for loop.
Execute ==
    /\ pc = "built"
    /\ startTime' = now
    /\ context' = [state |-> EmptyState,
                   meta |-> [flowName |-> config.name, currentStep |-> "",
                             correlationId |-> options.correlationId],
                   signal |-> <<>>]
    /\ obs' = Append(obs, Note("onFlowStart", "", 0, 0, 0, NoError, Undefined, now))
    /\ idx' = 1
    /\ pc' = "loop"
    /\ input' = Freeze(input)
    /\ UNCHANGED <<par, chain, config, warnings, mapper, options, deps, now, attempt, delay, inflight,
                   calls, waits, published, verdicts, outcome>>

\* A deadline error that names meta.currentStep, the step run last.
FlowTimeoutNamesCurrentStep ==
    /\ pc = "loop"
    /\ idx <= NumSteps
    /\ FlowTimedOut
    /\ RunFails(obs, TimeoutError(config.name, context.meta.currentStep, options.timeout), now)
    /\ UNCHANGED <<par, chain, config, warnings, input, mapper, options, deps, startTime, calls, published, verdicts>>

\* The pre-step check of the flow-level timeout throws.
FlowTimeout ==
    /\ pc = "loop"
    /\ idx <= NumSteps
    /\ FlowTimedOut
    /\ RunFails(obs, TimeoutError(config.name, Step.name, options.timeout), now)
    /\ UNCHANGED <<par, chain, config, warnings, input, mapper, options, deps, startTime, calls, published, verdicts>>

\* A skip without its `continue`: `skipped` is notified and the step runs.
SkipStepFallsThrough ==
    /\ pc = "loop"
    /\ idx <= NumSteps
    /\ ~FlowTimedOut
    /\ Step.condition
    /\ context' = [context EXCEPT !.meta.currentStep = Step.name]
    /\ attempt' = 1
    /\ delay' = 0
    /\ StartAttempt(Append(obs, Note("onStepSkipped", Step.name, 0, 0, 0, NoError,
                                     Undefined, now)),
                    Step, 1, Step.name, now)
    /\ UNCHANGED <<par, chain, config, warnings, input, mapper, options, deps, idx, startTime, waits,
                   published, verdicts, outcome>>

\* step.condition is present and evaluates false.
SkipStep ==
    /\ pc = "loop"
    /\ idx <= NumSteps
    /\ ~FlowTimedOut
    /\ Step.condition
    /\ context' = [context EXCEPT !.meta.currentStep = Step.name]
    /\ obs' = Append(obs, Note("onStepSkipped", Step.name, 0, 0, 0, NoError, Undefined, now))
    /\ idx' = idx + 1
    /\ UNCHANGED <<par, chain, config, warnings, input, mapper, options, deps, pc, startTime, now, attempt,
                   delay, inflight, calls, waits, published, verdicts, outcome>>

\* A break step whose breakCondition evaluates true.
BreakTaken ==
    /\ pc = "loop"
    /\ idx <= NumSteps
    /\ ~FlowTimedOut
    /\ Step.type = "break"
    /\ options.observer # "throwsOnStepStart"
    /\ LET cur == [context EXCEPT !.meta.currentStep = Step.name]
           breakResult == IF Step.breakReturnValue
                            THEN BreakValue(context.state)
                            ELSE StateValue(context.state)
       IN /\ context' = cur
          /\ obs' = obs \o
               <<Note("onStepStart", Step.name, 0, 0, 0, NoError, Undefined, now),
                 Note("onStepComplete", Step.name, 0, 0, 0, NoError, breakResult, now),
                 Note("onFlowBreak", Step.name, 0, 0, 0, NoError, breakResult, now)>>
          /\ outcome' = BuiltExecute(breakResult, TRUE)
    /\ pc' = "done"
    /\ UNCHANGED <<par, chain, config, warnings, input, mapper, options, deps, idx, startTime, now, attempt,
                   delay, inflight, calls, waits, published, verdicts>>

\* A break step not taken whose marker is merged like a step's result.
BreakNotTakenMergesMarker ==
    /\ pc = "loop"
    /\ idx <= NumSteps
    /\ ~FlowTimedOut
    /\ Step.type = "break"
    /\ options.observer # "throwsOnStepStart"
    /\ context' = [context EXCEPT !.meta.currentStep = Step.name,
                                  !.state = Merge(@, BreakMarker.val)]
    /\ obs' = obs \o
         <<Note("onStepStart", Step.name, 0, 0, 0, NoError, Undefined, now),
           Note("onStepComplete", Step.name, 0, 0, 0, NoError, BreakMarker, now)>>
    /\ idx' = idx + 1
    /\ UNCHANGED <<par, chain, config, warnings, input, mapper, options, deps, pc, startTime, now, attempt,
                   delay, inflight, calls, waits, published, verdicts, outcome>>

\* A break step whose breakCondition evaluates false.
BreakNotTaken ==
    /\ pc = "loop"
    /\ idx <= NumSteps
    /\ ~FlowTimedOut
    /\ Step.type = "break"
    /\ options.observer # "throwsOnStepStart"
    /\ context' = [context EXCEPT !.meta.currentStep = Step.name]
    /\ obs' = obs \o
         <<Note("onStepStart", Step.name, 0, 0, 0, NoError, Undefined, now),
           Note("onStepComplete", Step.name, 0, 0, 0, NoError, BreakMarker, now)>>
    /\ idx' = idx + 1
    /\ UNCHANGED <<par, chain, config, warnings, input, mapper, options, deps, pc, startTime, now, attempt,
                   delay, inflight, calls, waits, published, verdicts, outcome>>

\* A first attempt begun before meta.currentStep is updated.
StartStepStaleMeta ==
    /\ pc = "loop"
    /\ idx <= NumSteps
    /\ ~FlowTimedOut
    /\ Step.type # "break"
    /\ context' = [context EXCEPT !.meta.currentStep = Step.name]
    /\ attempt' = 1
    /\ delay' = IF Step.retryOptions # <<>> THEN Step.retryOptions[1].delayMs ELSE 0
    /\ StartAttempt(obs, Step, 1, context.meta.currentStep, now)
    /\ UNCHANGED <<par, chain, config, warnings, input, mapper, options, deps, idx, startTime, waits,
                   published, verdicts, outcome>>

\* executeStep: the first attempt of a step that is neither skipped nor a
\* break step.
StartStep ==
    /\ pc = "loop"
    /\ idx <= NumSteps
    /\ ~FlowTimedOut
    /\ Step.type # "break"
    /\ context' = [context EXCEPT !.meta.currentStep = Step.name]
    /\ attempt' = 1
    /\ delay' = IF Step.retryOptions # <<>> THEN Step.retryOptions[1].delayMs ELSE 0
    /\ StartAttempt(obs, Step, 1, Step.name, now)
    /\ UNCHANGED <<par, chain, config, warnings, input, mapper, options, deps, idx, startTime, waits,
                   published, verdicts, outcome>>

\* The handler of a validate, compute or transactional step returns before
\* the step deadline, if there is one.
HandlerReturns ==
    /\ pc = "running"
    /\ inflight = "handler"
    /\ Step.type \in {"validate", "step", "transaction"}
    /\ \E d \in Durations :
         /\ StepTimeoutOf(Step) = 0 \/ d <= StepTimeoutOf(Step)
         /\ \E r \in (IF Step.type = "validate" THEN {Undefined} ELSE HandlerResults(idx)) :
              /\ calls' = [calls EXCEPT ![Len(calls)].result = <<r>>]
              /\ AttemptSucceeded(r, now + d)
    /\ input' = Assign(input, Step.writes, idx)
    /\ UNCHANGED <<par, chain, config, warnings, mapper, options, deps, startTime, published>>

\* A loop that, after a publish that failed, goes on with the payloads left
\* and fails the attempt at its end.
EventHandlerReturnsPublishesRest ==
    /\ pc = "running"
    /\ inflight = "handler"
    /\ Step.type = "event"
    /\ \E d \in Durations, events \in Produced(Step) :
         /\ StepTimeoutOf(Step) = 0 \/ d <= StepTimeoutOf(Step)
         /\ calls' = [calls EXCEPT ![Len(calls)].returned = events]
         /\ LET out == Publishable(events)
            IN \E k \in 0..Len(out) :
                 /\ published' = published \o
                      [j \in 1..(IF k = Len(out) THEN k ELSE Len(out) - 1) |->
                          LET n == IF j <= k THEN j ELSE j + 1
                          IN [step |-> Step.name, attempt |-> attempt, seq |-> out[n],
                              call |-> publishEvent(events[out[n]], Step.channel, context)]]
                 /\ IF k = Len(out)
                      THEN AttemptSucceeded(Undefined, now + d)
                      ELSE AttemptFailed(HandlerError("Error", Step.name, attempt), now + d)
    /\ input' = Assign(input, Step.writes, idx)
    /\ UNCHANGED <<par, chain, config, warnings, mapper, options, deps, startTime>>

\* The handler of an event step returns payloads; those with an eventType
\* are published in order, until one publish fails.
EventHandlerReturns ==
    /\ pc = "running"
    /\ inflight = "handler"
    /\ Step.type = "event"
    /\ \E d \in Durations, events \in Produced(Step) :
         /\ StepTimeoutOf(Step) = 0 \/ d <= StepTimeoutOf(Step)
         /\ calls' = [calls EXCEPT ![Len(calls)].returned = events]
         /\ LET out == Publishable(events)
            IN \E k \in 0..Len(out) :
                 /\ published' = published \o
                      [j \in 1..k |->
                          [step |-> Step.name, attempt |-> attempt, seq |-> out[j],
                           call |-> publishEvent(events[out[j]], Step.channel, context)]]
                 /\ IF k = Len(out)
                      THEN AttemptSucceeded(Undefined, now + d)
                      ELSE AttemptFailed(HandlerError("Error", Step.name, attempt), now + d)
    /\ input' = Assign(input, Step.writes, idx)
    /\ UNCHANGED <<par, chain, config, warnings, mapper, options, deps, startTime>>

\* The handler raises before the step deadline, if there is one.
HandlerThrows ==
    /\ pc = "running"
    /\ inflight = "handler"
    /\ \E d \in Durations, kind \in {"Error", "ValidationError"} :
         /\ StepTimeoutOf(Step) = 0 \/ d <= StepTimeoutOf(Step)
         /\ AttemptFailed(HandlerError(kind, Step.name, attempt), now + d)
    /\ input' = Assign(input, Step.writes, idx)
    /\ UNCHANGED <<par, chain, config, warnings, mapper, options, deps, startTime, calls, published>>

\* withTimeout: the timer wins the race; the handler is left running.
StepTimeout ==
    /\ pc = "running"
    /\ inflight = "handler"
    /\ StepTimeoutOf(Step) # 0
    /\ AttemptFailed(TimeoutError(context.meta.flowName, Step.name, StepTimeoutOf(Step)),
                     now + StepTimeoutOf(Step))
    /\ UNCHANGED <<par, chain, config, warnings, input, mapper, options, deps, startTime, calls, published>>

\* A handler that never settles and an engine that does not wait for it.
HandlerHangsRunGoesOn ==
    /\ pc = "running"
    /\ inflight = "handler"
    /\ StepTimeoutOf(Step) = 0
    /\ pc' = "loop"
    /\ idx' = idx + 1
    /\ inflight' = "none"
    /\ UNCHANGED <<par, chain, config, warnings, input, mapper, options, deps, context, startTime, now,
                   attempt, delay, obs, calls, waits, published, verdicts, outcome>>

\* No step deadline and a handler that never settles: the run never resumes.
HandlerHangs ==
    /\ pc = "running"
    /\ inflight = "handler"
    /\ StepTimeoutOf(Step) = 0
    /\ pc' = "hung"
    /\ UNCHANGED <<par, chain, config, warnings, input, mapper, options, deps, idx, context, startTime, now,
                   attempt, delay, inflight, obs, calls, waits, published, verdicts, outcome>>

\* A missing capability that is an error whatever options.errorHandling says.
MissingCollaboratorAlwaysThrows ==
    /\ pc = "running"
    /\ inflight = "missing"
    /\ AttemptFailed(FlowExecutionError(context.meta.flowName, Step.name), now)
    /\ UNCHANGED <<par, chain, config, warnings, input, mapper, options, deps, startTime, calls, published>>

\* executeTransaction / executeEvent without the capability: an error, or
\* a warning and no result.
MissingCollaborator ==
    /\ pc = "running"
    /\ inflight = "missing"
    /\ LET shouldThrow == IF Step.type = "transaction"
                            THEN options.errorHandling.throwOnMissingDatabase
                            ELSE options.errorHandling.throwOnMissingEventPublisher
       IN IF shouldThrow
            THEN /\ AttemptFailed(FlowExecutionError(context.meta.flowName, Step.name), now)
                 /\ warnings' = warnings
            ELSE /\ AttemptSucceeded(Undefined, now)
                 /\ warnings' = Append(warnings, [flowName |-> context.meta.flowName,
                                                  step |-> Step.name])
    /\ UNCHANGED <<par, chain, config, input, mapper, options, deps, startTime, calls, published>>

\* The observer's onStepStart throws.  In executeSingleStep the call is made
\* before the try: the error leaves the attempt without onStepError and
\* without the handler being invoked.  For a break step the call is made in
\* the try of execute.
ObserverThrows ==
    /\ \/ /\ pc = "running"
          /\ inflight = "hook"
          /\ Caught(obs, HookError(Step.name, attempt), now)
       \/ /\ pc = "loop"
          /\ idx <= NumSteps
          /\ ~FlowTimedOut
          /\ Step.type = "break"
          /\ options.observer = "throwsOnStepStart"
          /\ RunFails(Append(obs, Note("onStepStart", Step.name, 0, 0, 0, NoError,
                                      Undefined, now)),
                      HookError(Step.name, 0), now)
          /\ verdicts' = verdicts
    /\ UNCHANGED <<par, chain, config, warnings, input, mapper, options, deps, startTime, calls,
                   published>>

\* The loop is over and the observer's onFlowComplete throws: the call is
\* made in the try of execute, whose catch notifies onFlowError.
ObserverThrowsOnFlowComplete ==
    /\ pc = "loop"
    /\ idx > NumSteps
    /\ options.observer = "throwsOnFlowComplete"
    /\ RunFails(Append(obs, Note("onFlowComplete", "", 0, 0, 0, NoError,
                                StateValue(context.state), now)),
                HookError("", 0), now)
    /\ UNCHANGED <<par, chain, config, warnings, input, mapper, options, deps, startTime, calls,
                   published, verdicts>>

\* executeWithRetry: the backoff wait is over; the delay advances and the
\* next attempt begins.
RetryWaitEnds ==
    /\ pc = "waiting"
    /\ delay' = NextDelay(delay, Step.retryOptions[1])
    /\ attempt' = attempt + 1
    /\ StartAttempt(obs, Step, attempt + 1, context.meta.currentStep, now + delay)
    /\ UNCHANGED <<par, chain, config, warnings, input, mapper, options, deps, idx, context, startTime, waits,
                   published, verdicts, outcome>>

\* An end of the loop that waits for one step more than the list has.
FlowCompleteOffByOne ==
    /\ pc = "loop"
    /\ idx > NumSteps + 1
    /\ options.observer # "throwsOnFlowComplete"
    /\ obs' = Append(obs, Note("onFlowComplete", "", 0, 0, 0, NoError,
                               StateValue(context.state), now))
    /\ outcome' = BuiltExecute(StateValue(context.state), FALSE)
    /\ pc' = "done"
    /\ UNCHANGED <<par, chain, config, warnings, input, mapper, options, deps, idx, context, startTime, now,
                   attempt, delay, inflight, calls, waits, published, verdicts>>

\* The loop is over: onFlowComplete and the final state.
FlowComplete ==
    /\ pc = "loop"
    /\ idx > NumSteps
    /\ options.observer # "throwsOnFlowComplete"
    /\ obs' = Append(obs, Note("onFlowComplete", "", 0, 0, 0, NoError,
                               StateValue(context.state), now))
    /\ outcome' = BuiltExecute(StateValue(context.state), FALSE)
    /\ pc' = "done"
    /\ UNCHANGED <<par, chain, config, warnings, input, mapper, options, deps, idx, context, startTime, now,
                   attempt, delay, inflight, calls, waits, published, verdicts>>

Next ==
    \/ Execute
    \/ FlowTimeout
    \/ SkipStep
    \/ BreakTaken
    \/ BreakNotTaken
    \/ StartStep
    \/ HandlerReturns
    \/ EventHandlerReturns
    \/ HandlerThrows
    \/ StepTimeout
    \/ HandlerHangs
    \/ MissingCollaborator
    \/ RetryWaitEnds
    \/ FlowComplete

Spec == Init /\ [][Next]_vars

\* ------------------------------------------------ runs under either observer
\* Flows of compute and break steps, a retried compute step among them, run
\* with every dependency and without deadlines, under an observer whose
\* hooks return and under one whose onStepStart throws.
ObservedSteps(i) == {step(StepNames[i]), breakIf(i - 1, FALSE)}
ObservedFlows ==
    UNION {SeqsOver(ObservedSteps, n) : n \in 1..MaxSteps}
    \cup RetryFlows(ComputeSteps, FixedDelayPolicies)
ObservedCalls ==
    {<<WithObserver(o, ob), AllDeps>> :
        o \in {DefaultOptions, Options(0, 0, FALSE, TRUE, TRUE)},
        ob \in {"returns", "throwsOnStepStart", "throwsOnFlowComplete"}}

ObsInit ==
    /\ Built(ObservedFlows, {FALSE}, ObservedCalls)
    /\ Constructed
    /\ par = NoCombinator

\* The steps of Next that these flows can take, and the throwing hook.
ObsNext ==
    \/ Execute
    \/ BreakTaken
    \/ BreakNotTaken
    \/ StartStep
    \/ HandlerReturns
    \/ HandlerThrows
    \/ HandlerHangs
    \/ ObserverThrows
    \/ ObserverThrowsOnFlowComplete
    \/ RetryWaitEnds
    \/ FlowComplete

ObsSpec == ObsInit /\ [][ObsNext]_vars

\* -------------------------------------------------------- FlowBuilder.build
\* A check that compares each step with the one before it only.
DuplicateNamesOfNeighbours(steps) ==
    SelectSeq([i \in 1..Len(steps) |-> IF i > 1 /\ steps[i - 1].name = steps[i].name
                                         THEN steps[i].name ELSE ""],
              LAMBDA n : n # "")

\* build, the uniqueness loop: `duplicates`, the name of every step whose
\* name an earlier step has.
DuplicateNames(steps) ==
    SelectSeq([i \in 1..Len(steps) |->
                  IF \E h \in 1..(i - 1) : steps[h].name = steps[i].name
                    THEN steps[i].name ELSE ""],
              LAMBDA n : n # "")

\* The steps a builder can hold at position i: a compute step under one of
\* three names, one of which is the name breakIf gives a first step, or a
\* break step.
NamedSteps(i) ==
    {step(n) : n \in {StepNames[1], StepNames[2], BreakNames[1]}}
    \cup {breakIf(i - 1, FALSE)}
NamedFlows == UNION {SeqsOver(NamedSteps, n) : n \in 1..(MaxSteps + 1)}

\* A builder holds its steps and build has not been called.
BuildInit ==
    /\ Built(NamedFlows, {FALSE}, {<<DefaultOptions, AllDeps>>})
    /\ input = Input
    /\ pc = "builder"
    /\ idx = 0
    /\ context = [state |-> EmptyState,
                  meta |-> [flowName |-> config.name, currentStep |-> "",
                            correlationId |-> <<>>],
                  signal |-> <<>>]
    /\ startTime = 0
    /\ now = 0
    /\ attempt = 0
    /\ delay = 0
    /\ inflight = "none"
    /\ obs = <<>>
    /\ calls = <<>>
    /\ waits = <<>>
    /\ published = <<>>
    /\ verdicts = <<>>
    /\ warnings = <<>>
    /\ outcome = [status |-> "pending", kind |-> "", val |-> EmptyState,
                  error |-> NoError, executed |-> <<>>]
    /\ chain = <<>>
    /\ par = NoCombinator

\* build throws: `duplicates` is not empty.
BuildThrows ==
    /\ pc = "builder"
    /\ DuplicateNames(config.steps) # <<>>
    /\ pc' = "invalid"
    /\ UNCHANGED <<par, chain, config, warnings, input, mapper, options, deps, idx, context,
                   startTime, now, attempt, delay, inflight, obs, calls, waits, published,
                   verdicts, outcome>>

\* build returns the flow definition.
BuildReturns ==
    /\ pc = "builder"
    /\ DuplicateNames(config.steps) = <<>>
    /\ pc' = "built"
    /\ UNCHANGED <<par, chain, config, warnings, input, mapper, options, deps, idx, context,
                   startTime, now, attempt, delay, inflight, obs, calls, waits, published,
                   verdicts, outcome>>

\* build, and the steps of Next that the flows it returns can take.
BuildNext ==
    \/ BuildThrows
    \/ BuildReturns
    \/ Execute
    \/ BreakTaken
    \/ BreakNotTaken
    \/ StartStep
    \/ HandlerReturns
    \/ HandlerThrows
    \/ HandlerHangs
    \/ FlowComplete

BuildSpec == BuildInit /\ [][BuildNext]_vars

\* ================================= the handler that `parallel` returns
\* A Promise.all that lists the results in the order the handlers completed.
PromiseAllAsCompleted(p) ==
    [k \in 1..Len(p.order) |-> p.handlers[p.order[k]].result]

\* await Promise.all(...), fulfilled: the results by position of the handler.
PromiseAll(p) == [i \in 1..Len(p.handlers) |-> p.handlers[i].result]

ParallelResolved(value) ==
    [status |-> "resolved", value |-> value, error |-> NoParallelError]
ParallelRejected(error) ==
    [status |-> "rejected", value |-> NoValue, error |-> error]

\* The handler after its await: the merge the strategy asks for.
MergeResults(p) ==
    LET results == PromiseAll(p)
    IN CASE p.strategy = "error-on-conflict" ->
              IF ConflictingKey(results) # ""
                THEN ParallelRejected(ParallelError(0, ConflictingKey(results)))
                ELSE ParallelResolved(ObjectAssign(results))
         [] p.strategy = "deep" ->
              ParallelResolved(deepMerge(<<Plain(EmptyState)>> \o results))
         [] OTHER -> ParallelResolved(ObjectAssign(results))

\* The combinator's handler is called with the context: handlers.map calls
\* every handler with it, in order, until one throws while being called;
\* the async ones are then running.
ParallelCall ==
    /\ par.outcome.status = "idle"
    /\ LET n == Len(par.handlers)
           throwers == {i \in 1..n : par.handlers[i].sync /\ par.handlers[i].fails}
           last == IF throwers = {} THEN n
                   ELSE CHOOSE i \in throwers : \A j \in throwers : i <= j
       IN par' = [par EXCEPT
            !.status = [i \in 1..n |->
                          IF i > last THEN "idle"
                          ELSE IF ~par.handlers[i].sync THEN "running"
                          ELSE IF par.handlers[i].fails THEN "rejected"
                          ELSE "fulfilled"],
            !.seen = [i \in 1..n |-> IF i <= last THEN <<context>> ELSE <<>>],
            !.order = SelectSeq([i \in 1..n |-> i],
                                LAMBDA i : i <= last /\ par.handlers[i].sync),
            !.outcome = IF throwers # {}
                          THEN ParallelRejected(ParallelError(last, ""))
                          ELSE [par.outcome EXCEPT !.status = "pending"]]
    /\ UNCHANGED engine

\* A settling in which a failed handler does not fail the combinator.
ParallelSettlesQuietly ==
    /\ \E i \in 1..Len(par.handlers) :
         /\ par.status[i] = "running"
         /\ par' = [par EXCEPT
              !.status[i] = IF par.handlers[i].fails THEN "rejected" ELSE "fulfilled",
              !.order = Append(par.order, i)]
    /\ UNCHANGED engine

\* One of the running handlers settles, in any order; the first rejection
\* rejects Promise.all, and with it the combinator's handler.
ParallelSettles ==
    /\ \E i \in 1..Len(par.handlers) :
         /\ par.status[i] = "running"
         /\ par' = [par EXCEPT
              !.status[i] = IF par.handlers[i].fails THEN "rejected" ELSE "fulfilled",
              !.order = Append(par.order, i),
              !.outcome = IF par.handlers[i].fails /\ par.outcome.status = "pending"
                            THEN ParallelRejected(ParallelError(i, ""))
                            ELSE par.outcome]
    /\ UNCHANGED engine

\* Every handler has fulfilled: Promise.all fulfils and the results are merged.
ParallelMerges ==
    /\ par.outcome.status = "pending"
    /\ \A i \in 1..Len(par.handlers) : par.status[i] = "fulfilled"
    /\ par' = [par EXCEPT !.outcome = MergeResults(par)]
    /\ UNCHANGED engine

\* A step handler made by `parallel` is about to be called with the context
\* of a run.
ParInit ==
    /\ Built({<<step(StepNames[1])>>}, {FALSE}, {<<DefaultOptions, AllDeps>>})
    /\ Constructed
    /\ par \in Combinators

ParNext ==
    \/ ParallelCall
    \/ ParallelSettles
    \/ ParallelMerges

ParSpec == ParInit /\ [][ParNext]_vars

\* ======================================================== what is checked
PosOf(name) == CHOOSE i \in 1..NumSteps : Steps[i].name = name
StepNamed(name) == Steps[PosOf(name)]
Max(S) == CHOOSE x \in S : \A y \in S : y <= x
Last(q) == q[Len(q)]

\* The positions in the notifications o at which a step handed back an
\* object holding key k.
Writers(o, k) ==
    {j \in 1..Len(o) : /\ o[j].ev = "onStepComplete"
                       /\ o[j].result.kind = "object"
                       /\ k \in DOMAIN o[j].result.val}

\* The state the results reported in o amount to: each key holds the value
\* of the last result that has it.
ExpectedState(o) ==
    [k \in {x \in Keys : Writers(o, x) # {}} |-> o[Max(Writers(o, k))].result.val[k]]

NotesOn(name, ev) == {j \in 1..Len(obs) : obs[j].step = name /\ obs[j].ev = ev}
CallsOf(name) == {j \in 1..Len(calls) : calls[j].step = name}
WaitsOf(name) == {j \in 1..Len(waits) : waits[j].step = name}

\* C1: handlers are invoked in the declaration order of the step list, each
\* one observes the state made of the results of the steps executed before
\* it, and meta.currentStep is the name of the step whose handler is running.
HandlersInDeclarationOrder ==
    /\ \A j \in 1..Len(calls) :
         /\ calls[j].currentStep = calls[j].step
         /\ calls[j].state = ExpectedState(SubSeq(obs, 1, calls[j].seen))
         /\ \A k \in (j + 1)..Len(calls) :
              \/ PosOf(calls[j].step) < PosOf(calls[k].step)
              \/ /\ calls[j].step = calls[k].step
                 /\ calls[j].attempt < calls[k].attempt
    /\ (pc = "running" /\ inflight = "handler") =>
         /\ context.meta.currentStep = Step.name
         /\ Last(calls).step = Step.name

\* C1 witness: the handler of a second step is running and sees what the
\* first step returned.
SecondHandlerSeesFirstResult ==
    /\ pc = "running" /\ inflight = "handler"
    /\ Len(calls) = 2
    /\ calls[1].step # calls[2].step
    /\ calls[2].state # EmptyState

\* C2: the state is empty when the run starts and, at every point of the
\* run and in the value of a run that completes normally, it holds for each
\* key the value of the last executed step that returned that key; keys are
\* never removed.
StateIsMergeOfResults ==
    /\ (pc = "built" \/ (pc = "loop" /\ idx = 1)) => context.state = EmptyState
    /\ context.state = ExpectedState(obs)
    /\ \A j \in 1..Len(obs) :
         (obs[j].ev = "onStepComplete" /\ obs[j].result.kind = "object")
            => DOMAIN obs[j].result.val \subseteq DOMAIN context.state
    /\ (pc = "done" /\ Last(obs).ev = "onFlowComplete") =>
         /\ outcome.status = "resolved"
         /\ outcome.val = ExpectedState(obs)

\* C2 witness: a run has completed after a later step overwrote a key of an
\* earlier one and kept another.
CompletedWithOverwrite ==
    /\ pc = "done" /\ Last(obs).ev = "onFlowComplete"
    /\ \E j, k \in 1..Len(obs) :
         /\ j < k
         /\ obs[j].ev = "onStepComplete" /\ obs[j].result.kind = "object"
         /\ obs[k].ev = "onStepComplete" /\ obs[k].result.kind = "object"
         /\ DOMAIN obs[j].result.val = Keys
         /\ DOMAIN obs[k].result.val = {"a"}
         /\ outcome.val["a"] = obs[k].result.val["a"]
         /\ outcome.val["b"] = obs[j].result.val["b"]
         /\ obs[j].result.val["a"] # obs[k].result.val["a"]

\* C3: once a break step's condition has evaluated true the run has
\* resolved with the short-circuit payload -- the payload builder's value,
\* or the accumulated state without a builder --, the output transform is
\* not applied, no handler of a later step has been invoked, `flow broke` is
\* the last notification and `flow completed` is never notified.
BreakShortCircuits ==
    \A j \in 1..Len(obs) :
        obs[j].ev = "onFlowBreak" =>
            /\ j = Len(obs)
            /\ pc = "done"
            /\ outcome.status = "resolved"
            /\ outcome.kind = (IF StepNamed(obs[j].step).breakReturnValue
                                 THEN "breakValue" ELSE "state")
            /\ outcome.val = ExpectedState(obs)
            /\ \A k \in 1..Len(obs) : obs[k].ev # "onFlowComplete"
            /\ \A c \in 1..Len(calls) : PosOf(calls[c].step) < PosOf(obs[j].step)

\* C3 witness: a flow with an output transform and a step after the break
\* step has broken, after a step that put something in the state.
BrokeBeforeLastStepWithMapper ==
    /\ Len(obs) > 0
    /\ Last(obs).ev = "onFlowBreak"
    /\ mapper
    /\ PosOf(Last(obs).step) < NumSteps
    /\ PosOf(Last(obs).step) > 1
    /\ context.state # EmptyState

\* C4 (log): a skipped step has exactly one notification, the `skipped`
\* one, and neither a handler invocation nor a backoff wait.
SkippedStepLeavesNoTrace ==
    \A j \in 1..Len(obs) :
        obs[j].ev = "onStepSkipped" =>
            /\ \A k \in 1..Len(obs) : obs[k].step = obs[j].step => k = j
            /\ CallsOf(obs[j].step) = {}
            /\ WaitsOf(obs[j].step) = {}
            /\ StepNamed(obs[j].step).condition

\* C4 (step): the transition that notifies `skipped` leaves the state, the
\* clock and the outcome as they were and moves the loop to the next step.
SkipOnlyAdvances ==
    (Len(obs') = Len(obs) + 1 /\ Last(obs').ev = "onStepSkipped") =>
        /\ pc = "loop" /\ pc' = "loop"
        /\ Last(obs').step = Step.name
        /\ idx' = idx + 1
        /\ context'.state = context.state
        /\ now' = now
        /\ outcome' = outcome
        /\ calls' = calls

\* C4: a step whose run-condition evaluates false is skipped: one `skipped`
\* notification and no other, no handler invocation, no wait, the state
\* unchanged, and the run goes on with the next step.
SkippedStepIsInert == []SkippedStepLeavesNoTrace /\ [][SkipOnlyAdvances]_vars

\* C4 witness: the first step was skipped and the second one's handler is
\* running.
SkippedThenRunning ==
    /\ Len(obs) >= 2
    /\ obs[2].ev = "onStepSkipped"
    /\ pc = "running" /\ inflight = "handler"
    /\ idx = 2

\* The notifications about step `name`, and the waits made for it, in order.
StartsOf(name) == NotesOn(name, "onStepStart")
ErrorsOf(name) == NotesOn(name, "onStepError")
WaitSeq(name)  == SelectSeq(waits, LAMBDA w : w.step = name)

\* C5: a validate step whose handler raises has been invoked once, and the
\* error it raised is the failure of the run, whatever retry policy the step
\* carries and whatever the kind of the error.
ValidateHandlerRunsOnce ==
    \A j \in 1..Len(obs) :
        (/\ obs[j].ev = "onStepError"
         /\ StepNamed(obs[j].step).type = "validate"
         /\ obs[j].err.origin # <<>>) =>
            /\ Cardinality(CallsOf(obs[j].step)) = 1
            /\ j + 1 = Len(obs)
            /\ obs[j + 1].ev = "onFlowError"
            /\ obs[j + 1].err = obs[j].err

\* What C6 says of the step at position i apart from the number of handler
\* invocations: at most maxAttempts attempts, none after a success, the
\* result of the success in the state, the same state seen by every
\* attempt, and the last error as the failure once maxAttempts have failed.
RetryPolicyRespected(i) ==
    LET s == Steps[i]
        N == s.retryOptions[1].maxAttempts
    IN  /\ Cardinality(StartsOf(s.name)) \in 1..N
        /\ Cardinality(CallsOf(s.name)) <= N
        /\ \A j \in NotesOn(s.name, "onStepComplete") :
             /\ \A k \in StartsOf(s.name) : k < j
             /\ obs[j].result.kind = "object" =>
                  \A key \in DOMAIN obs[j].result.val :
                      Max(Writers(obs, key)) = j => context.state[key] = obs[j].result.val[key]
        /\ \A j, k \in CallsOf(s.name) : calls[j].state = calls[k].state
        /\ Cardinality(ErrorsOf(s.name)) = N =>
             /\ pc = "done"
             /\ Last(obs).ev = "onFlowError"
             /\ Last(obs).err = obs[Max(ErrorsOf(s.name))].err
             /\ obs[Max(ErrorsOf(s.name))].n = N
             /\ options.throwOnError => (outcome.status = "rejected"
                                         /\ outcome.error = Last(obs).err)

Retried(i) == Steps[i].retryOptions # <<>> /\ StartsOf(Steps[i].name) # {}

\* C6 as stated: a step executed under a retry policy with maxAttempts = N
\* has had its handler invoked at least once and at most N times, and the
\* rest of RetryPolicyRespected.
HandlerInvokedOneToMaxAttempts ==
    \A i \in 1..NumSteps :
        Retried(i) =>
            /\ Cardinality(CallsOf(Steps[i].name)) >= 1
            /\ RetryPolicyRespected(i)

\* C6 amended: the step is attempted at least once and at most N times; its
\* handler is invoked once per attempt, except that the handler of a
\* transactional or event step whose capability is missing is not invoked
\* at all; and the rest of RetryPolicyRespected.
AttemptsOneToMaxAttempts ==
    \A i \in 1..NumSteps :
        Retried(i) =>
            /\ Cardinality(CallsOf(Steps[i].name)) =
                 (IF \/ Steps[i].type = "transaction" /\ ~deps.db
                     \/ Steps[i].type = "event" /\ ~deps.eventPublisher
                    THEN 0 ELSE Cardinality(StartsOf(Steps[i].name)))
            /\ RetryPolicyRespected(i)

\* C6 witness: a step failed twice and succeeded at the third and last
\* attempt, after a first step had put something in the state; its result
\* is in the state.
ThirdAttemptSucceeded ==
    \E i \in 1..NumSteps :
        /\ Steps[i].retryOptions # <<>>
        /\ Steps[i].retryOptions[1].maxAttempts = 3
        /\ Cardinality(ErrorsOf(Steps[i].name)) = 2
        /\ Cardinality(CallsOf(Steps[i].name)) = 3
        /\ calls[Max(CallsOf(Steps[i].name))].state # EmptyState
        /\ \E j \in NotesOn(Steps[i].name, "onStepComplete") :
             /\ obs[j].result.kind = "object"
             /\ DOMAIN obs[j].result.val \subseteq DOMAIN context.state

\* C6 witness of the amendment's exception: all attempts of a transactional
\* step without a database have failed and its handler was never invoked.
RetriedWithoutDatabase ==
    \E i \in 1..NumSteps :
        /\ Retried(i)
        /\ Steps[i].type = "transaction" /\ ~deps.db
        /\ Cardinality(ErrorsOf(Steps[i].name)) = 3
        /\ CallsOf(Steps[i].name) = {}

\* What C7 says apart from the size of the waits: the k-th wait follows the
\* k-th failed attempt, the next attempt starts when it is over, and there
\* is one wait less than attempts once the step is over.
WaitsBetweenAttempts(name) ==
    LET W == WaitSeq(name)
    IN  /\ \A k \in 1..Len(W) : W[k].after = k
        /\ Len(W) = Cardinality(StartsOf(name)) - 1
                      + (IF pc = "waiting" /\ Step.name = name THEN 1 ELSE 0)
        /\ \A j \in StartsOf(name) :
             obs[j].n > 1 =>
                /\ obs[j - 1].ev = "onStepRetry"
                /\ obs[j - 1].attempt = obs[j].n - 1
                /\ obs[j].at = obs[j - 1].at + W[obs[j].n - 1].ms

\* C7: the waits between consecutive attempts of a retried step are
\* d1 = delayMs and d(k+1) = min(d(k) * backoffMultiplier, maxDelayMs), with
\* the documented defaults (multiplier 1, no cap); one wait between a failed
\* attempt and the next attempt, none after the final attempt.
WaitsFollowBackoffFormula ==
    \A i \in 1..NumSteps :
        Retried(i) =>
            LET r == Steps[i].retryOptions[1]
                W == WaitSeq(Steps[i].name)
                m == IF r.backoffMultiplier = 0 THEN 1 ELSE r.backoffMultiplier
            IN  /\ WaitsBetweenAttempts(Steps[i].name)
                /\ Len(W) >= 1 => W[1].ms = r.delayMs
                /\ \A k \in 1..(Len(W) - 1) :
                     W[k + 1].ms = (IF r.maxDelayMs # 0 /\ r.maxDelayMs < W[k].ms * m
                                      THEN r.maxDelayMs ELSE W[k].ms * m)

\* The waits executeWithRetry does make: d1 = delayMs; with a
\* backoffMultiplier configured d(k+1) = min(d(k) * backoffMultiplier,
\* maxDelayMs) (no cap when maxDelayMs is omitted); without one every wait
\* is delayMs, whatever maxDelayMs.
WaitsFollowConfiguredBackoff ==
    \A i \in 1..NumSteps :
        Retried(i) =>
            LET r == Steps[i].retryOptions[1]
                W == WaitSeq(Steps[i].name)
            IN  /\ WaitsBetweenAttempts(Steps[i].name)
                /\ Len(W) >= 1 => W[1].ms = r.delayMs
                /\ \A k \in 1..(Len(W) - 1) :
                     W[k + 1].ms =
                        (IF r.backoffMultiplier = 0
                           THEN r.delayMs
                           ELSE IF r.maxDelayMs # 0
                                     /\ r.maxDelayMs < W[k].ms * r.backoffMultiplier
                                  THEN r.maxDelayMs
                                  ELSE W[k].ms * r.backoffMultiplier)

\* Two waits were made under a multiplier and a cap that cuts the second
\* one, and the step is over.
SecondWaitCapped ==
    \E i \in 1..NumSteps :
        /\ Retried(i)
        /\ Steps[i].retryOptions[1].backoffMultiplier = 2
        /\ Steps[i].retryOptions[1].maxDelayMs = 2
        /\ Steps[i].retryOptions[1].delayMs = 3
        /\ Len(WaitSeq(Steps[i].name)) = 2
        /\ WaitSeq(Steps[i].name)[2].ms = 2
        /\ pc = "done"

\* Two waits were made without a multiplier, the second one above
\* maxDelayMs.
SecondWaitAboveCap ==
    \E i \in 1..NumSteps :
        /\ Retried(i)
        /\ Steps[i].retryOptions[1].backoffMultiplier = 0
        /\ Steps[i].retryOptions[1].maxDelayMs = 2
        /\ Len(WaitSeq(Steps[i].name)) = 2
        /\ WaitSeq(Steps[i].name)[2].ms = 3

\* C8: an attempt whose error the retry predicate refused, or whose error
\* is a validation error, is the last one of its step: the run has failed
\* with that error, and no `retrying` notification, wait or further attempt
\* follows it.
RefusedErrorEndsStep ==
    \A j \in 1..Len(obs) :
        (/\ obs[j].ev = "onStepError"
         /\ \/ obs[j].err.name = "ValidationError"
            \/ \E v \in 1..Len(verdicts) :
                 /\ verdicts[v].step = obs[j].step
                 /\ verdicts[v].n = obs[j].n
                 /\ ~verdicts[v].verdict) =>
            /\ j + 1 = Len(obs)
            /\ obs[j + 1].ev = "onFlowError"
            /\ obs[j + 1].err = obs[j].err
            /\ pc = "done"
            /\ Cardinality(StartsOf(obs[j].step)) = obs[j].n
            /\ \A k \in NotesOn(obs[j].step, "onStepRetry") : obs[k].attempt < obs[j].n
            /\ Len(WaitSeq(obs[j].step)) = obs[j].n - 1

\* C8 witness: the predicate accepted the error of the first attempt and
\* refused that of the second, with a third attempt still allowed.
PredicateRefusedSecondError ==
    /\ Len(verdicts) = 2
    /\ verdicts[1].verdict /\ ~verdicts[2].verdict
    /\ StepNamed(verdicts[2].step).retryOptions[1].maxAttempts = 3
    /\ pc = "done"

\* C8 witness: a validation error ended a step at its first attempt although
\* the predicate accepted it and attempts remained.
ValidationErrorAcceptedByPredicate ==
    /\ Len(verdicts) = 1
    /\ verdicts[1].verdict
    /\ Last(obs).ev = "onFlowError"
    /\ Last(obs).err.name = "ValidationError"
    /\ StepNamed(verdicts[1].step).retryOptions[1].maxAttempts = 3

\* C9: an attempt under a step deadline T -- the step's own stepTimeout if
\* set, else the run's -- never lasts longer than T; one that ends by the
\* deadline fails, T after it started, with a timeout error carrying the
\* flow name, the step name and T; and a run is never left waiting for a
\* handler when a step deadline applies.
StepDeadlineUnblocksCaller ==
    LET T(name) ==
            LET s == StepNamed(name)
            IN  IF s.retryOptions # <<>> /\ s.retryOptions[1].stepTimeout # 0
                  THEN s.retryOptions[1].stepTimeout
                  ELSE options.stepTimeout
    IN  /\ \A j \in 1..Len(obs) :
             (obs[j].ev = "onStepError" /\ obs[j].err.name = "TimeoutError") =>
                /\ T(obs[j].step) # 0
                /\ obs[j].err = [name |-> "TimeoutError", flowName |-> config.name,
                                 stepName |-> obs[j].step,
                                 timeoutMs |-> T(obs[j].step), origin |-> <<>>]
                /\ obs[j - 1].ev = "onStepStart" /\ obs[j - 1].step = obs[j].step
                /\ obs[j].at = obs[j - 1].at + T(obs[j].step)
        /\ \A j \in 1..Len(obs) :
             (obs[j].ev \in {"onStepComplete", "onStepError"} /\ obs[j].n >= 1
              /\ T(obs[j].step) # 0) =>
                /\ obs[j - 1].ev = "onStepStart" /\ obs[j - 1].step = obs[j].step
                /\ obs[j].at - obs[j - 1].at <= T(obs[j].step)
        /\ pc = "hung" => T(Step.name) = 0

\* C9 witness: an attempt timed out on the step's own deadline of 1 ms while
\* the run's default was 2 ms.
TimedOutOnOwnDeadline ==
    /\ options.stepTimeout = 2
    /\ \E j \in 1..Len(obs) :
         /\ obs[j].ev = "onStepError"
         /\ obs[j].err.name = "TimeoutError"
         /\ obs[j].err.timeoutMs = 1

Failures == {j \in 1..Len(obs) : obs[j].ev = "onFlowError"}

\* C11: with throwOnError = false, once a step has failed for good the run
\* is over without raising: no step is started and no handler invoked after
\* the failure, and FlowExecutor.execute has returned, flagged as not
\* short-circuited, exactly the state made of the results of the steps
\* completed before, to which the failing step has contributed nothing.
SwallowedFailureReturnsPartialState ==
    \A j \in Failures :
        options.throwOnError = FALSE =>
            /\ pc = "done"
            /\ j = Len(obs)
            /\ \A c \in 1..Len(calls) : calls[c].seen < j
            /\ outcome.status = "resolved"
            /\ outcome.executed =
                  FlowExecutionResult(StateValue(ExpectedState(obs)), FALSE)
            /\ context.state = ExpectedState(obs)
            /\ obs[j - 1].ev = "onStepError" =>
                  /\ NotesOn(obs[j - 1].step, "onStepComplete") = {}
                  /\ \A k \in 1..NumSteps :
                        k > PosOf(obs[j - 1].step) => StartsOf(Steps[k].name) = {}

\* C11 witness: with throwOnError = false a first step put something in
\* the state, the second failed at its second and last attempt, and the run
\* returned.
SwallowedFailureAfterRetries ==
    /\ options.throwOnError = FALSE
    /\ pc = "done"
    /\ NumSteps = 2
    /\ Cardinality(ErrorsOf(Steps[2].name)) = 2
    /\ Last(obs).ev = "onFlowError"
    /\ outcome.status = "resolved"
    /\ outcome.val # EmptyState

\* C12: with throwOnError = false the built flow's execute resolves, after
\* a step failure, with the partial state accumulated before the failing
\* step, with or without an output mapper.
BuiltFlowResolvesWithPartialState ==
    (options.throwOnError = FALSE /\ Failures # {}) =>
        /\ outcome.status = "resolved"
        /\ outcome.kind = "state"
        /\ outcome.val = ExpectedState(obs)

\* C13: with the default throwOnError, a step that has failed for good is
\* notified as failed, the flow is notified as failed with the same error
\* right after, and the run is rejected with it no earlier than that;
\* neither `flow completed` nor `flow broke` is notified in that run.
StepFailureThenFlowFailureThenReject ==
    /\ \A j \in 1..Len(obs) :
         obs[j].ev = "onStepError" =>
            /\ j < Len(obs)
            /\ obs[j + 1].ev \in {"onStepRetry", "onFlowError"}
            /\ obs[j + 1].ev = "onFlowError" =>
                  /\ obs[j + 1].err = obs[j].err
                  /\ obs[j].step = context.meta.currentStep
                  /\ j + 1 = Len(obs)
                  /\ options.throwOnError =>
                        /\ outcome.status = "rejected"
                        /\ outcome.error = obs[j].err
    /\ outcome.status = "rejected" =>
         /\ options.throwOnError
         /\ Last(obs).ev = "onFlowError"
         /\ \A k \in 1..Len(obs) : obs[k].ev \notin {"onFlowComplete", "onFlowBreak"}

\* C13 witness: after a completed first step the second one failed, and the
\* run is rejected.
RejectedAfterSecondStepFailed ==
    /\ outcome.status = "rejected"
    /\ Len(obs) >= 2
    /\ obs[Len(obs) - 1].ev = "onStepError"
    /\ PosOf(obs[Len(obs) - 1].step) = 2
    /\ NotesOn(Steps[1].name, "onStepComplete") # {}

HandlerErrorsAreWrapped ==
    (/\ outcome.status = "rejected"
     /\ outcome.error.name \notin {"ValidationError", "TimeoutError"}) =>
        /\ outcome.error.name = "FlowExecutionError"
        /\ outcome.error.flowName = config.name
        /\ outcome.error.stepName = context.meta.currentStep

\* C16: the input handed to the handlers is never changed by a step: every
\* assignment to it is without effect, and every handler invocation of the
\* run finds in it the content the caller passed.
InputIsImmutable ==
    /\ input.value = Input.value
    /\ input.nested.value = Input.nested.value
    /\ \A j \in 1..Len(calls) :
         /\ calls[j].input.value = Input.value
         /\ calls[j].input.nested.value = Input.nested.value

\* What the publisher received from attempt att of the step called name.
PublishedBy(name, att) ==
    SelectSeq(published, LAMBDA p : p.step = name /\ p.attempt = att)

\* The publisher's calls that the payloads E of a handler of step s amount
\* to: one per payload, on the step's channel, with the run's correlation
\* identifier in the place of the payload's own.
PublishCalls(E, s) ==
    [k \in 1..Len(E) |->
        [channel |-> s.channel,
         event |-> [eventType |-> E[k].eventType,
                    correlationId |-> context.meta.correlationId]]]

Typed(E) == SelectSeq(E, LAMBDA e : e.eventType # "")

\* The attempt att of the step called name has completed.
Completed(name, att) ==
    \E j \in NotesOn(name, "onStepComplete") : obs[j].n = att

\* What C17 says of publishing, for the payloads Kept(E) of what a handler
\* returned: only event steps publish; an attempt publishes, in the order
\* produced and on the step's channel, its payloads with the run's
\* correlation identifier, all of them once it has completed and the first
\* ones if a publish failed; and an event step leaves the state as it
\* found it.
EventStepPublishes(Kept(_)) ==
    /\ \A k \in 1..Len(published) :
         /\ StepNamed(published[k].step).type = "event"
         /\ \E j \in CallsOf(published[k].step) :
               calls[j].attempt = published[k].attempt
         /\ \A l \in (k + 1)..Len(published) :
               (/\ published[l].step = published[k].step
                /\ published[l].attempt = published[k].attempt) =>
                  published[k].seq < published[l].seq
    /\ \A j \in 1..Len(calls) :
         StepNamed(calls[j].step).type = "event" =>
            LET P == PublishedBy(calls[j].step, calls[j].attempt)
                W == PublishCalls(Kept(calls[j].returned), StepNamed(calls[j].step))
            IN  /\ Len(P) <= Len(W)
                /\ \A k \in 1..Len(P) : P[k].call = W[k]
                /\ Completed(calls[j].step, calls[j].attempt) => Len(P) = Len(W)
                /\ (j < Len(calls)
                    /\ PosOf(calls[j + 1].step) <= PosOf(calls[j].step) + 1) =>
                      calls[j + 1].state = calls[j].state
    /\ \A i \in 1..NumSteps :
         Steps[i].type = "event" =>
            /\ \A j \in NotesOn(Steps[i].name, "onStepComplete") :
                  obs[j].result.kind # "object"
            /\ (idx = i /\ pc \in {"running", "waiting"} /\ CallsOf(Steps[i].name) # {}) =>
                  context.state = Last(calls).state

AllPayloads(E) == E

\* C17: an event step publishes the payloads produced by its handler to
\* the step's declared channel in the order produced, each with the run's
\* correlation identifier in the place of any the handler supplied, and
\* never changes state.
EventStepPublishesAllPayloads == EventStepPublishes(AllPayloads)

\* C17 amended: the payloads published are those that carry an eventType;
\* a payload without one is skipped.
EventStepPublishesTypedPayloads == EventStepPublishes(Typed)

\* C17 witness: in a run called with a correlationId, an event step that
\* follows a compute step has completed after its handler returned two
\* typed payloads, the first with a correlationId of its own, and both were
\* published with the run's.
TwoEventsPublishedWithRunId ==
    /\ options.correlationId = <<"req-1">>
    /\ NumSteps = 2
    /\ Steps[2].type = "event"
    /\ Completed(Steps[2].name, 1)
    /\ Len(calls) = 2
    /\ Len(calls[2].returned) = 2
    /\ calls[2].returned[1].correlationId = <<"own">>
    /\ calls[2].state # EmptyState
    /\ Len(published) = 2
    /\ published[1].call.event.correlationId = <<"req-1">>

\* C18: every run has a correlation identifier, the caller's or one the
\* engine issued, and every event published carries a defined
\* correlationId.
EveryRunHasCorrelationId ==
    /\ pc # "built" => context.meta.correlationId # <<>>
    /\ \A k \in 1..Len(published) : published[k].call.event.correlationId # <<>>

\* The steps whose capability is missing from the dependency bag, and the
\* errorHandling flag that decides what that means.
Lacking(i) ==
    \/ Steps[i].type = "transaction" /\ ~deps.db
    \/ Steps[i].type = "event" /\ ~deps.eventPublisher
ThrowsOnMissing(i) ==
    IF Steps[i].type = "transaction"
      THEN options.errorHandling.throwOnMissingDatabase
      ELSE options.errorHandling.throwOnMissingEventPublisher

\* C19: by default a transactional step run without a database, or an
\* event step run without a publisher, fails with a missing-collaborator
\* error naming the flow and the step; its handler is never invoked and it
\* publishes nothing.
MissingCollaboratorFailsStep ==
    \A i \in 1..NumSteps :
        (Lacking(i) /\ ThrowsOnMissing(i)) =>
            /\ CallsOf(Steps[i].name) = {}
            /\ \A k \in 1..Len(published) : published[k].step # Steps[i].name
            /\ NotesOn(Steps[i].name, "onStepComplete") = {}
            /\ \A w \in 1..Len(warnings) : warnings[w].step # Steps[i].name
            /\ \A j \in StartsOf(Steps[i].name) :
                  j < Len(obs) =>
                     /\ obs[j + 1].ev = "onStepError"
                     /\ obs[j + 1].err =
                           [name |-> "FlowExecutionError", flowName |-> config.name,
                            stepName |-> Steps[i].name, timeoutMs |-> 0, origin |-> <<>>]
            /\ (Steps[i].retryOptions = <<>> /\ ErrorsOf(Steps[i].name) # {}) =>
                  /\ pc = "done"
                  /\ Last(obs).ev = "onFlowError"
                  /\ Last(obs).err.name = "FlowExecutionError"
                  /\ Last(obs).err.stepName = Steps[i].name
                  /\ options.throwOnError => outcome = Rejected(Last(obs).err)

\* C19 witness: after a completed first step, an event step run without a
\* publisher failed the run with the missing-collaborator error.
RejectedForMissingPublisher ==
    /\ NumSteps = 2
    /\ Steps[2].type = "event"
    /\ ~deps.eventPublisher
    /\ outcome.status = "rejected"
    /\ outcome.error.name = "FlowExecutionError"
    /\ outcome.error.stepName = Steps[2].name
    /\ Len(calls) = 1

KeysOf(r) == IF r.kind = "plain" THEN DOMAIN r.props ELSE {}
Holders(k) == {i \in 1..Len(par.handlers) : k \in KeysOf(par.handlers[i].result)}

\* Each key holds the value of the handler placed last among those that
\* have it.
LastWriterWins ==
    Plain([k \in {x \in Keys : Holders(x) # {}} |->
              par.handlers[Max(Holders(k))].result.props[k]])

ParallelFailureDiscardsResults ==
    (\E i \in 1..Len(par.handlers) : par.status[i] = "rejected") =>
       /\ par.outcome.status = "rejected"
       /\ par.outcome.value = NoValue
       /\ par.outcome.error.handler =
             par.order[CHOOSE k \in 1..Len(par.order) :
                          /\ par.status[par.order[k]] = "rejected"
                          /\ \A h \in 1..(k - 1) : par.status[par.order[h]] # "rejected"]

\* The first handler fulfilled with an object, then the second failed.
FailedAfterAnotherFulfilled ==
    /\ Len(par.handlers) = 2
    /\ par.order = <<1, 2>>
    /\ par.status = <<"fulfilled", "rejected">>
    /\ par.handlers[1].result.kind = "plain"
    /\ par.outcome.status = "rejected"
    /\ par.outcome.error = ParallelError(2, "")
    /\ par.outcome.value = NoValue

\* The keys that two or more results hold.
Conflicts == {k \in Keys : Cardinality(Holders(k)) >= 2}
AllFulfilled == \A i \in 1..Len(par.handlers) : par.status[i] = "fulfilled"

\* C23: under error-on-conflict, once every handler has fulfilled and the
\* merge is made: if some key is in two results the combinator fails with
\* an error that names such a key, and has no value; if no key is, it
\* resolves with the shallow merge.
ErrorOnConflictMerge ==
    (par.strategy = "error-on-conflict" /\ AllFulfilled
        /\ par.outcome.status # "pending") =>
       IF Conflicts # {}
         THEN /\ par.outcome.status = "rejected"
              /\ par.outcome.error.handler = 0
              /\ par.outcome.error.key \in Conflicts
              /\ par.outcome.value = NoValue
         ELSE /\ par.outcome.status = "resolved"
              /\ par.outcome.value = LastWriterWins

\* Both results hold "a" and the merge has failed naming it.
ConflictOnSharedKey ==
    /\ par.strategy = "error-on-conflict"
    /\ Len(par.handlers) = 2
    /\ AllFulfilled
    /\ Conflicts = {"a"}
    /\ "b" \in KeysOf(par.handlers[2].result)
    /\ par.outcome.status = "rejected"
    /\ par.outcome.error = ParallelError(0, "a")

\* Two values at one key: plain objects are combined key by key, arrays
\* are joined earlier-then-later, otherwise the later one stands.
RECURSIVE Combine(_, _)
Combine(earlier, later) ==
    CASE earlier.kind = "plain" /\ later.kind = "plain" ->
           Plain([k \in (DOMAIN earlier.props) \cup (DOMAIN later.props) |->
                    IF k \notin DOMAIN later.props THEN earlier.props[k]
                    ELSE IF k \notin DOMAIN earlier.props THEN later.props[k]
                    ELSE Combine(earlier.props[k], later.props[k])])
      [] earlier.kind = "list" /\ later.kind = "list" ->
           List(earlier.items \o later.items)
      [] OTHER -> later

\* The partials that are objects, combined in positional order.
RECURSIVE CombinedUpTo(_)
CombinedUpTo(i) ==
    IF i = 0 THEN Plain(EmptyState)
    ELSE IF par.handlers[i].result.kind = "plain"
           THEN Combine(CombinedUpTo(i - 1), par.handlers[i].result)
           ELSE CombinedUpTo(i - 1)

\* C24: the deep merge is the partials combined in positional order: at
\* each key two plain objects recursively, two arrays joined
\* earlier-then-later, and in every other case the later value.
DeepMergeCombinesByKind ==
    (par.strategy = "deep" /\ par.outcome.status = "resolved") =>
       par.outcome.value = CombinedUpTo(Len(par.handlers))

\* {a: [1]} and {a: [2]} have given {a: [1, 2]}.
ArraysConcatenatedInOrder ==
    /\ par.strategy = "deep"
    /\ Len(par.handlers) = 2
    /\ par.handlers[1].result = Plain([k \in {"a"} |-> List(<<1>>)])
    /\ par.handlers[2].result = Plain([k \in {"a"} |-> List(<<2>>)])
    /\ par.outcome.status = "resolved"
    /\ par.outcome.value = Plain([k \in {"a"} |-> List(<<1, 2>>)])

\* ------------------------------------------------------------ the observer
\* The step at position i has succeeded: the loop has gone past it and it
\* was not skipped.
NoRetries == \A i \in 1..NumSteps : Steps[i].retryOptions = <<>>
Succeeded(i) ==
    /\ idx > i
    /\ Steps[i].type # "break"
    /\ NotesOn(Steps[i].name, "onStepSkipped") = {}

\* What the handler invoked for the step at position i gave back as the
\* step's result: what a compute or transactional handler returned, and
\* nothing for the other kinds and where no handler was invoked.
ResultOf(i) ==
    IF Steps[i].type \in {"step", "transaction"} /\ CallsOf(Steps[i].name) # {}
      THEN calls[Max(CallsOf(Steps[i].name))].result[1]
      ELSE Undefined

\* C25: in a run of a flow without retry policies, every step that has
\* succeeded (break steps and skipped steps apart) has exactly one
\* step-start and one step-complete notification, the start first, the
\* complete one carrying the step's result; a step that has not succeeded
\* has no step-complete notification; and the notifications of an earlier
\* step all come before those of a later one.
StartAndCompleteOncePerStep ==
    NoRetries =>
       \A i \in 1..NumSteps :
          LET started == NotesOn(Steps[i].name, "onStepStart")
              completed == NotesOn(Steps[i].name, "onStepComplete")
          IN Steps[i].type # "break" =>
               /\ completed # {} <=> Succeeded(i)
               /\ Succeeded(i) =>
                    /\ Cardinality(started) = 1
                    /\ Cardinality(completed) = 1
                    /\ Max(started) < Max(completed)
                    /\ obs[Max(completed)].result = ResultOf(i)
                    /\ \A j \in (i + 1)..NumSteps :
                          \A k \in NotesOn(Steps[j].name, "onStepStart") :
                             Max(completed) < k

\* Two compute steps have succeeded, the first with an object, and the
\* observer holds start, complete, start, complete.
TwoStepsStartedAndCompleted ==
    /\ NoRetries
    /\ NumSteps = 2
    /\ Succeeded(1) /\ Succeeded(2)
    /\ Steps[1].type = "step" /\ Steps[2].type = "step"
    /\ ResultOf(1).kind = "object"
    /\ pc = "done"
    /\ [j \in 1..Len(obs) |-> obs[j].ev] =
          <<"onFlowStart", "onStepStart", "onStepComplete", "onStepStart",
            "onStepComplete", "onFlowComplete">>

\* C26: a step-failure notification is made only for a step that has
\* definitively failed: none is followed by a retry of the step, and a step
\* that has succeeded has none.
StepErrorOnlyWhenDefinitive ==
    \A i \in 1..NumSteps :
       /\ \A j \in NotesOn(Steps[i].name, "onStepError") :
             \A k \in NotesOn(Steps[i].name, "onStepRetry") : k < j
       /\ Succeeded(i) => NotesOn(Steps[i].name, "onStepError") = {}

\* The step at position i has been attempted and the run is no longer in it.
Attempted(i) == StartsOf(Steps[i].name) # {}
Over(i) == idx > i \/ pc = "done"
RetriesOf(name) == NotesOn(name, "onStepRetry")

\* C27, as stated: the 'retrying' notifications of a step that has a
\* handler are one fewer than the invocations of that handler.
RetryNotesOneFewerThanInvocations ==
    \A i \in 1..NumSteps :
       (Attempted(i) /\ Over(i) /\ Steps[i].type # "break") =>
          Cardinality(RetriesOf(Steps[i].name)) =
             Cardinality(CallsOf(Steps[i].name)) - 1

\* C27 amended: every attempt but the first is preceded by a 'retrying'
\* notification that carries the number of the attempt that has just
\* failed and maxAttempts; once the step is over these notifications are one
\* fewer than its attempts, and the last one is followed by an attempt.
RetryNotesOneFewerThanAttempts ==
    \A i \in 1..NumSteps :
       LET name == Steps[i].name
       IN /\ \A j \in StartsOf(name) :
                obs[j].n >= 2 =>
                   /\ Steps[i].retryOptions # <<>>
                   /\ obs[j - 1].ev = "onStepRetry"
                   /\ obs[j - 1].step = name
                   /\ obs[j - 1].attempt = obs[j].n - 1
                   /\ obs[j - 1].maxAttempts = Steps[i].retryOptions[1].maxAttempts
          /\ \A k \in RetriesOf(name) :
                /\ obs[k].attempt = Cardinality({j \in StartsOf(name) : j < k})
                /\ obs[k].attempt < obs[k].maxAttempts
          /\ (Attempted(i) /\ Over(i)) =>
                /\ Cardinality(RetriesOf(name)) = Cardinality(StartsOf(name)) - 1
                /\ RetriesOf(name) # {} =>
                      Max(RetriesOf(name)) < Max(StartsOf(name))

\* A step with maxAttempts 3 has failed three times: the observer was told
\* of a retry after attempts 1 and 2 and of none after the third.
RetriedTwiceThenGaveUp ==
    \E i \in 1..NumSteps :
       /\ Steps[i].retryOptions # <<>>
       /\ Steps[i].retryOptions[1].maxAttempts = 3
       /\ pc = "done"
       /\ outcome.status = "rejected"
       /\ Cardinality(CallsOf(Steps[i].name)) = 3
       /\ [k \in 1..2 |-> obs[CHOOSE j \in RetriesOf(Steps[i].name) :
                                 Cardinality({h \in RetriesOf(Steps[i].name) : h <= j}) = k].attempt]
             = <<1, 2>>
       /\ obs[Len(obs) - 1].ev = "onStepError"
       /\ obs[Len(obs)].ev = "onFlowError"

\* C28: the observer has no say in the run: no attempt of a step and no run
\* fails on an error raised by a hook, and every attempt that has begun has
\* its handler invoked.
ObserverHasNoControl ==
    /\ outcome.error.name # "HookError"
    /\ \A j \in 1..Len(obs) : obs[j].err.name # "HookError"
    /\ inflight # "hook"

\* ---------------------------------------------------------------- build
SharedName(steps) ==
    \E i, j \in 1..Len(steps) : i < j /\ steps[i].name = steps[j].name

\* C29: build has thrown only for a step list in which two steps share a
\* name, and then nothing of the flow has run; a flow that build has
\* returned, at whatever point of its execution, has pairwise distinct
\* step names.
BuildRejectsDuplicateNames ==
    /\ pc = "invalid" =>
          /\ SharedName(Steps)
          /\ obs = <<>> /\ calls = <<>> /\ outcome.status = "pending"
    /\ pc \notin {"builder", "invalid"} => ~SharedName(Steps)

\* build has thrown for three steps of which the first and the last share
\* a name and the middle one has another.
RejectedForFirstAndLastSharingName ==
    /\ pc = "invalid"
    /\ NumSteps = 3
    /\ Steps[1].name = Steps[3].name
    /\ Steps[1].name # Steps[2].name

\* ---------------------------------------------------------- cancellation
\* C30: every handler invocation has received a cancellation signal in its
\* context.
EveryHandlerReceivesSignal ==
    \A j \in 1..Len(calls) : calls[j].signal # <<>>

\* ------------------------------------------------------- the flow deadline
\* C31: a run that has ended after more than the flow-level timeout since
\* its start has rejected with a TimeoutError carrying the flow name and the
\* timeout value (for the calls that ask for a rejection).
FlowDeadlineAbortsRun ==
    (/\ pc = "done"
     /\ options.timeout # 0
     /\ options.throwOnError
     /\ now - startTime > options.timeout) =>
       /\ outcome.status = "rejected"
       /\ outcome.error.name = "TimeoutError"
       /\ outcome.error.flowName = config.name
       /\ outcome.error.timeoutMs = options.timeout

\* ------------------------------------------- handlers the engine left behind
\* withTimeout races the handler's promise against a timer and cancels
\* neither: a handler that lost the race goes on running in the background.
\* The invocation calls[j] was given up by its step deadline.
Abandoned(j) ==
    \E n \in 1..Len(obs) :
        /\ obs[n].ev = "onStepError"
        /\ obs[n].step = calls[j].step
        /\ obs[n].n = calls[j].attempt
        /\ obs[n].err.name = "TimeoutError"

\* The engine has seen the invocation calls[j] end: executeSingleStep went
\* on to onStepComplete or to onStepError.
Concluded(j) ==
    \E n \in 1..Len(obs) :
        /\ obs[n].ev \in {"onStepComplete", "onStepError"}
        /\ obs[n].step = calls[j].step
        /\ obs[n].n = calls[j].attempt

\* The handler of calls[j] has been called and has not settled yet.
InProgress(j) == IF Abandoned(j) THEN ~calls[j].settled ELSE ~Concluded(j)

\* execute replaces context.state by a fresh object at each merge and at
\* no other point: the object calls[j] was handed is still the engine's
\* while no result has been merged since the call.
SameStateObject(j) ==
    ~\E n \in (calls[j].seen + 1)..Len(obs) :
        /\ obs[n].ev = "onStepComplete"
        /\ obs[n].result.kind = "object"

\* What a handler at position i assigns to ctx.state: a key of its choice.
Scribble(st, i) == Merge(st, [k \in {"a"} |-> 0 - i])

\* The running handler assigns to ctx.state, the object the engine holds.
HandlerAssignsState ==
    /\ pc = "running"
    /\ inflight = "handler"
    /\ Step.writes = "state"
    /\ ~calls[Len(calls)].wrote
    /\ context' = [context EXCEPT !.state = Scribble(@, idx)]
    /\ calls' = [calls EXCEPT ![Len(calls)].wrote = TRUE]
    /\ UNCHANGED <<par, chain, config, warnings, input, mapper, options, deps, pc, idx, startTime,
                   now, attempt, delay, inflight, obs, waits, published, verdicts, outcome>>

\* A handler that lost the race goes on to its end: it assigns to the
\* ctx.state it was handed, if it is one that does, and settles.
\* Promise.race has settled already and takes no notice of the result.
AbandonedHandlerSettles ==
    \E j \in 1..Len(calls) :
        /\ Abandoned(j)
        /\ ~calls[j].settled
        /\ \E i \in 1..NumSteps :
              /\ Steps[i].name = calls[j].step
              /\ context' = IF Steps[i].writes = "state" /\ ~calls[j].wrote /\ SameStateObject(j)
                              THEN [context EXCEPT !.state = Scribble(@, i)]
                              ELSE context
        /\ calls' = [calls EXCEPT ![j].settled = TRUE, ![j].wrote = TRUE]
        /\ UNCHANGED <<par, chain, config, warnings, input, mapper, options, deps, pc, idx,
                       startTime, now, attempt, delay, inflight, obs, waits, published,
                       verdicts, outcome>>

\* Runs with step deadlines: a compute step whose handler may assign to
\* ctx.state, under a retry policy that sets a deadline for each attempt,
\* alone or before a step without a deadline.
RaceFlows ==
    UNION {{<<withRetry(r, p)>>, <<withRetry(r, p), step(StepNames[2])>>} :
              r \in {step(StepNames[1]), scribbler(StepNames[1])},
              p \in {RetryOptions(n, 1, 0, 0, FALSE, 1) : n \in 1..MaxAttempts}}
\* The calls with every dependency: one that rejects on failure and one
\* that returns the partial state.
CallsWithAllDeps ==
    {<<DefaultOptions, AllDeps>>,
     <<Options(0, 0, FALSE, TRUE, TRUE), AllDeps>>}

RaceInit ==
    /\ Built(RaceFlows, {FALSE}, CallsWithAllDeps)
    /\ Constructed
    /\ par = NoCombinator

RaceNext ==
    \/ Execute
    \/ StartStep
    \/ HandlerAssignsState
    \/ HandlerReturns
    \/ HandlerThrows
    \/ StepTimeout
    \/ HandlerHangs
    \/ AbandonedHandlerSettles
    \/ RetryWaitEnds
    \/ FlowComplete

RaceSpec == RaceInit /\ [][RaceNext]_vars

\* C32 as stated: at most one handler invocation of a run is in progress at
\* any time.
AtMostOneHandlerInProgress ==
    Cardinality({j \in 1..Len(calls) : InProgress(j)}) <= 1

\* C32: at most one handler invocation that its step deadline has not given
\* up is in progress at any time, and it is the latest one: a handler is
\* started only after every earlier invocation has finished or has lost its
\* timeout race.
AtMostOneAwaitedHandlerInProgress ==
    \A j \in 1..Len(calls) :
        (InProgress(j) /\ ~Abandoned(j)) =>
            /\ j = Len(calls)
            /\ pc \in {"running", "hung"}
            /\ inflight = "handler"

\* C32 witness: the second attempt of a step is running while the first,
\* given up by the step deadline, has not settled.
RetryRunsBesideAbandonedHandler ==
    /\ Len(calls) = 2
    /\ calls[1].step = calls[2].step
    /\ Abandoned(1) /\ InProgress(1)
    /\ InProgress(2) /\ ~Abandoned(2)

\* C33: the state changes only when the engine merges the result of an
\* attempt that has succeeded: every step of a run that changes the state
\* reports an object at step completion and leaves the state merged with it.
StateChangesOnlyAtMerge ==
    [][context'.state # context.state =>
          /\ Len(obs') = Len(obs) + 1
          /\ obs'[Len(obs')].ev = "onStepComplete"
          /\ obs'[Len(obs')].result.kind = "object"
          /\ context'.state = Merge(context.state, obs'[Len(obs')].result.val)]_vars

\* ------------------------------------------------- defaults of the backoff
\* executeWithRetry: the k-th wait it makes under policy r, the delay
\* starting at delayMs and advancing after each wait.
RECURSIVE DelayAt(_, _)
DelayAt(r, k) == IF k <= 1 THEN r.delayMs ELSE NextDelay(DelayAt(r, k - 1), r)

\* C34: a policy that omits backoffMultiplier makes the waits the same
\* policy (same delayMs and maxDelayMs) makes with backoffMultiplier 1.
OmittedMultiplierIsOne ==
    \A i \in 1..NumSteps :
        (Retried(i) /\ Steps[i].retryOptions[1].backoffMultiplier = 0) =>
            LET r == Steps[i].retryOptions[1]
                W == WaitSeq(Steps[i].name)
            IN  \A k \in 1..Len(W) :
                    W[k].ms = DelayAt([r EXCEPT !.backoffMultiplier = 1], k)

\* ------------------------------------------------- a break that is not taken
\* C35: the step of a run that reports a break step's neutral marker leaves
\* the state and the outcome as they were, moves the loop to the next step
\* and notifies no `flow broke`; and the marker's key is never in the state
\* nor in the value a run resolves with.
BreakNotTakenIsInert ==
    /\ []("__breakConditionMet" \notin (DOMAIN context.state) \cup (DOMAIN outcome.val))
    /\ [][(Len(obs') > Len(obs) /\ obs'[Len(obs')].result = BreakMarker) =>
             /\ Step.type = "break"
             /\ context'.state = context.state
             /\ outcome' = outcome
             /\ pc' = "loop"
             /\ idx' = idx + 1
             /\ \A j \in (Len(obs) + 1)..Len(obs') : obs'[j].ev # "onFlowBreak"]_vars

\* C35 witness: a run has completed, with something in its state, after a
\* break step that was not taken and a step whose handler ran after it.
CompletedPastBreakNotTaken ==
    /\ pc = "done"
    /\ outcome.status = "resolved"
    /\ outcome.val # EmptyState
    /\ \E j \in 1..Len(obs) :
          /\ obs[j].result = BreakMarker
          /\ \E c \in 1..Len(calls) : calls[c].seen >= j

\* ------------------------------------------------ the sequence combinator
\* The handlers given to `sequence`: one at position j returns nothing,
\* returns an object of its own over some keys, returns key "a" with the
\* value the first step of the flow gives it, copies what it sees at "a" to
\* "b", or throws.
SeqHandler(kind, result) == [kind |-> kind, result |-> result]
SequenceHandlers(j) ==
    {SeqHandler("returns", Undefined), SeqHandler("returns", Obj([k \in {"a"} |-> 1])),
     SeqHandler("copies", Undefined), SeqHandler("throws", Undefined)}
    \cup {SeqHandler("returns", Obj([k \in K |-> 10 + j])) : K \in (SUBSET Keys) \ {{}}}

\* What handler h returns when it is called with `state` as ctx.state.
Returned(h, state) ==
    IF h.kind = "copies"
      THEN IF "a" \in DOMAIN state THEN Obj([k \in {"b"} |-> state["a"]]) ELSE Undefined
      ELSE h.result

\* A diff that holds the new keys only.
StateDiffOfNewKeys(incoming, state) ==
    [k \in {x \in DOMAIN state : x \notin DOMAIN incoming} |-> state[k]]

\* sequence, the shallow diff: the keys of `state` that ctx.state lacks or
\* holds with another value.
StateDiff(incoming, state) ==
    [k \in {x \in DOMAIN state : x \notin DOMAIN incoming \/ incoming[x] # state[x]}
        |-> state[k]]

\* `sequence(name, ...handlers)` as the handler of the step at position
\* `at`, not yet called: `pos` is the handler to call next, `state` the
\* local accumulation, `seen` the ctx.state each handler was called with.
Sequence(handlers, at) ==
    [handlers |-> handlers, at |-> at, pos |-> 0, incoming |-> <<>>,
     state |-> EmptyState, seen |-> <<>>, returned |-> <<>>]

\* The engine calls the step's handler: let state = ctx.state.
SequenceCall ==
    /\ pc = "running"
    /\ inflight = "handler"
    /\ idx = par.at
    /\ par.pos = 0
    /\ par' = [par EXCEPT !.pos = 1, !.incoming = <<context.state>>, !.state = context.state]
    /\ UNCHANGED engine

\* One turn of the for loop: the handler is awaited and its result, if it
\* is an object, is spread over the local state.
SequenceHandlerReturns ==
    /\ par.pos \in 1..Len(par.handlers)
    /\ par.handlers[par.pos].kind # "throws"
    /\ LET result == Returned(par.handlers[par.pos], par.state)
       IN par' = [par EXCEPT !.pos = @ + 1,
                             !.seen = Append(@, par.state),
                             !.state = IF result.kind = "object"
                                         THEN Merge(@, result.val) ELSE @]
    /\ UNCHANGED engine

\* A handler throws: the combinator's handler rejects and the attempt fails.
SequenceHandlerThrows ==
    /\ par.pos \in 1..Len(par.handlers)
    /\ par.handlers[par.pos].kind = "throws"
    /\ par' = [par EXCEPT !.pos = Len(par.handlers) + 2, !.seen = Append(@, par.state)]
    /\ AttemptFailed(HandlerError("Error", Step.name, attempt), now)
    /\ UNCHANGED <<chain, config, warnings, input, mapper, options, deps, startTime, calls, published>>

\* The loop is over: the diff is returned, and execute merges it.
SequenceReturns ==
    /\ par.pos = Len(par.handlers) + 1
    /\ LET stateDiff == StateDiff(par.incoming[1], par.state)
       IN /\ par' = [par EXCEPT !.pos = @ + 1, !.returned = <<stateDiff>>]
          /\ calls' = [calls EXCEPT ![Len(calls)].result = <<Obj(stateDiff)>>]
          /\ AttemptSucceeded(Obj(stateDiff), now)
    /\ UNCHANGED <<chain, config, warnings, input, mapper, options, deps, startTime, published>>

\* The handler of a step that `sequence` did not make returns.
PlainHandlerReturns ==
    /\ idx # par.at
    /\ HandlerReturns

\* execute over consecutive steps whose handlers are the first n of
\* `handlers`, from state st: each result that is an object is merged.
RECURSIVE AfterSteps(_, _, _)
AfterSteps(handlers, st, n) ==
    IF n = 0 THEN st
    ELSE LET before == AfterSteps(handlers, st, n - 1)
             result == Returned(handlers[n], before)
         IN IF result.kind = "object" THEN Merge(before, result.val) ELSE before

\* A flow of two compute steps, one of which has a handler made by
\* `sequence`, is about to be executed.
SeqInit ==
    /\ Built({<<step(StepNames[1]), step(StepNames[2])>>}, {FALSE}, {<<DefaultOptions, AllDeps>>})
    /\ Constructed
    /\ par \in {Sequence(h, at) : h \in UNION {SeqsOver(SequenceHandlers, n) : n \in 1..MaxHandlers},
                                 at \in 1..2}

SeqNext ==
    \/ Execute
    \/ StartStep
    \/ PlainHandlerReturns
    \/ SequenceCall
    \/ SequenceHandlerReturns
    \/ SequenceHandlerThrows
    \/ SequenceReturns
    \/ FlowComplete

SeqSpec == SeqInit /\ [][SeqNext]_vars

\* C36: once a step made by sequence(h1..hn) has returned, the run state is
\* the state that h1..hn declared as n consecutive steps produce from the
\* incoming state; each handler was called with the incoming state plus the
\* results of the handlers before it; and the step returned exactly the keys
\* that are new or whose value differs from the incoming state's.
SequenceEqualsConsecutiveSteps ==
    par.returned # <<>> =>
        LET n == Len(par.handlers)
            incoming == par.incoming[1]
            final == AfterSteps(par.handlers, incoming, n)
            stateDiff == par.returned[1]
        IN  /\ (idx = par.at + 1 /\ pc = "loop") => context.state = final
            /\ \A k \in 1..n : par.seen[k] = AfterSteps(par.handlers, incoming, k - 1)
            /\ DOMAIN stateDiff =
                  {k \in DOMAIN final : k \notin DOMAIN incoming \/ incoming[k] # final[k]}
            /\ \A k \in DOMAIN stateDiff : stateDiff[k] = final[k]

\* C36 witness: the second step, made by sequence, has returned; its first
\* handler returned a key with the value the incoming state has for it, its
\* second handler another value for the other key, and the step returned
\* the second key only.
SequenceChangedOneKeyOfTwo ==
    /\ par.at = 2
    /\ par.returned # <<>>
    /\ idx = 3
    /\ Len(par.handlers) = 2
    /\ DOMAIN par.incoming[1] = {"a", "b"}
    /\ par.handlers[1].result = Obj([k \in {"a"} |-> 1])
    /\ par.seen[2] = par.incoming[1]
    /\ par.returned[1] = [k \in {"b"} |-> 12]
    /\ context.state = [k \in {"a", "b"} |-> IF k = "a" THEN 1 ELSE 12]

\* ------------------------------------------------- the builder, call by call
\* While pc = "builder", config.steps and mapper are the steps and the
\* outputMapper of the FlowBuilder in hand.
\* new FlowBuilder(name, steps, length, mapper): outputMapper is set only
\* when a mapper is passed.
FlowBuilder(steps, outputMapper) == [steps |-> steps, outputMapper |-> outputMapper]

\* The methods of FlowBuilder that return a builder.
Methods == {"validate", "step", "stepIf", "transaction", "event", "events",
            "breakIf", "withRetry", "map"}

\* this.<method>(...): the builder the method returns.  The step is named
\* after its position; the methods that add a validate, compute,
\* transactional or event step call the constructor without a mapper,
\* breakIf and withRetry pass this.outputMapper on, map passes the new one.
Chained(steps, outputMapper, method) ==
    LET i == Len(steps) + 1
    IN CASE method = "validate" ->
              FlowBuilder(Append(steps, validate(StepNames[i])), FALSE)
         [] method = "step" ->
              FlowBuilder(Append(steps, step(StepNames[i])), FALSE)
         [] method = "stepIf" ->
              FlowBuilder(Append(steps, stepIf(StepNames[i])), FALSE)
         [] method = "transaction" ->
              FlowBuilder(Append(steps, transaction(StepNames[i])), FALSE)
         [] method \in {"event", "events"} ->
              FlowBuilder(Append(steps, event(Channels[i], StepNames[i])), FALSE)
         [] method = "breakIf" ->
              FlowBuilder(Append(steps, breakIf(Len(steps), FALSE)), outputMapper)
         [] method = "withRetry" ->
              IF steps = <<>>
                THEN FlowBuilder(steps, outputMapper)
                ELSE FlowBuilder([steps EXCEPT ![Len(steps)] =
                                     withRetry(@, RetryOptions(1, 1, 0, 0, FALSE, 0))],
                                 outputMapper)
         [] OTHER -> FlowBuilder(steps, TRUE)

\* One more method is called on the builder in hand.
BuilderCall ==
    /\ pc = "builder"
    /\ Len(chain) <= MaxSteps
    /\ \E method \in Methods :
         /\ method \in {"withRetry", "map"} \/ Len(config.steps) < MaxSteps
         /\ LET b == Chained(config.steps, mapper, method)
            IN /\ config' = [config EXCEPT !.steps = b.steps]
               /\ mapper' = b.outputMapper
         /\ chain' = Append(chain, method)
    /\ UNCHANGED <<par, warnings, input, options, deps, pc, idx, context, startTime, now,
                   attempt, delay, inflight, obs, calls, waits, published, verdicts, outcome>>

\* createFlow(name): a builder without steps and without a mapper.
ChainInit ==
    /\ config = [name |-> FlowName, steps |-> <<>>]
    /\ mapper = FALSE
    /\ options = DefaultOptions
    /\ deps = AllDeps
    /\ input = Input
    /\ pc = "builder"
    /\ idx = 0
    /\ context = [state |-> EmptyState,
                  meta |-> [flowName |-> FlowName, currentStep |-> "",
                            correlationId |-> <<>>],
                  signal |-> <<>>]
    /\ startTime = 0
    /\ now = 0
    /\ attempt = 0
    /\ delay = 0
    /\ inflight = "none"
    /\ obs = <<>>
    /\ calls = <<>>
    /\ waits = <<>>
    /\ published = <<>>
    /\ verdicts = <<>>
    /\ warnings = <<>>
    /\ outcome = [status |-> "pending", kind |-> "", val |-> EmptyState,
                  error |-> NoError, executed |-> <<>>]
    /\ par = NoCombinator
    /\ chain = <<>>

\* The builder's methods, build, and the steps of Next that a run of the
\* built flow takes when its handlers return.
ChainNext ==
    \/ BuilderCall
    \/ BuildReturns
    \/ Execute
    \/ SkipStep
    \/ BreakTaken
    \/ BreakNotTaken
    \/ StartStep
    \/ HandlerReturns
    \/ EventHandlerReturns
    \/ FlowComplete

ChainSpec == ChainInit /\ [][ChainNext]_vars

\* C37: a flow built from a chain of builder calls in which map was called
\* applies the output transform to the final state whenever a run of it
\* completes normally, whatever methods were called after map.
MapperRetainedByLaterCalls ==
    (/\ pc = "done"
     /\ Last(obs).ev = "onFlowComplete"
     /\ \E k \in 1..Len(chain) : chain[k] = "map") =>
        outcome.kind = "mapped"

\* ------------------------------------------------ the flow's notifications
\* C38: a run notifies `flow start` once, before anything else, and once it
\* is over exactly one of `flow completed`, `flow broke` and `flow failed`,
\* which is its last notification.
FlowNotificationsBracketRun ==
    LET ends == {j \in 1..Len(obs) :
                    obs[j].ev \in {"onFlowComplete", "onFlowBreak", "onFlowError"}}
    IN  /\ obs # <<>> => obs[1].ev = "onFlowStart"
        /\ \A j \in 2..Len(obs) : obs[j].ev # "onFlowStart"
        /\ pc = "done" => Cardinality(ends) = 1
        /\ ends \subseteq {Len(obs)}
        /\ ends # {} => pc = "done"

\* ------------------------------------------------- a publish that fails
\* Runs with an event step under a retry policy; a publisher is there.
PubInit ==
    /\ Built(RetryFlows(EventSteps, FixedDelayPolicies), {FALSE}, CallsWithAllDeps)
    /\ Constructed
    /\ par = NoCombinator

PubNext ==
    \/ Execute
    \/ StartStep
    \/ HandlerReturns
    \/ EventHandlerReturns
    \/ HandlerThrows
    \/ HandlerHangs
    \/ RetryWaitEnds
    \/ FlowComplete

PubSpec == PubInit /\ [][PubNext]_vars

\* The attempt att of the step called name has failed.
FailedAttempt(name, att) ==
    \E n \in NotesOn(name, "onStepError") : obs[n].n = att

\* C39: what an attempt of an event step has published are the first of the
\* payloads that can be published, in order and from the first one on; it
\* is fewer than all of them exactly when a publish failed, and then the
\* attempt has failed and has not completed; what earlier attempts
\* published stays in the publisher's log before what later ones publish,
\* and each attempt starts again at its first payload.
PublishStopsAtFirstFailure ==
    /\ \A j \in 1..Len(calls) :
          StepNamed(calls[j].step).type = "event" =>
             LET name == calls[j].step
                 att  == calls[j].attempt
                 P    == PublishedBy(name, att)
                 out  == Publishable(calls[j].returned)
             IN  /\ Len(P) <= Len(out)
                 /\ \A k \in 1..Len(P) : P[k].seq = out[k]
                 /\ Completed(name, att) => Len(P) = Len(out)
                 /\ Len(P) < Len(out) => (FailedAttempt(name, att) /\ ~Completed(name, att))
    /\ \A k \in 1..Len(published) : \A l \in (k + 1)..Len(published) :
          published[k].step = published[l].step =>
              published[k].attempt <= published[l].attempt

\* C39 witness: the first attempt of an event step published the first of
\* two payloads and failed; the second attempt published both and completed.
RepublishedFromFirstPayload ==
    \E i \in 1..NumSteps :
        /\ Steps[i].type = "event"
        /\ FailedAttempt(Steps[i].name, 1)
        /\ Completed(Steps[i].name, 2)
        /\ Len(PublishedBy(Steps[i].name, 1)) = 1
        /\ Len(PublishedBy(Steps[i].name, 2)) = 2
        /\ [k \in 1..Len(published) |-> <<published[k].attempt, published[k].seq>>]
              = <<<<1, 1>>, <<2, 1>>, <<2, 2>>>>

\* ------------------------------------------------------------- termination
\* The runs in which every handler invocation settles or is given up by a
\* step deadline: the steps of Next but the one of a handler that never
\* settles under no deadline.  Each continuation of the engine runs once
\* the promise or the timer it waits for has settled.
LiveNext ==
    \/ Execute
    \/ FlowTimeout
    \/ SkipStep
    \/ BreakTaken
    \/ BreakNotTaken
    \/ StartStep
    \/ HandlerReturns
    \/ EventHandlerReturns
    \/ HandlerThrows
    \/ StepTimeout
    \/ MissingCollaborator
    \/ RetryWaitEnds
    \/ FlowComplete

LiveSpec == Init /\ [][LiveNext]_vars /\ WF_vars(LiveNext)

\* C40: a run whose handler invocations all settle or are covered by a step
\* deadline ends, returning or rejecting; no step is begun more often than
\* its policy's maxAttempts (once without a policy), and the loop never
\* goes back to an earlier step.
RunTerminates ==
    /\ <>(pc = "done" /\ outcome.status \in {"resolved", "rejected"})
    /\ [](\A i \in 1..NumSteps :
             Cardinality(StartsOf(Steps[i].name)) <=
                (IF Steps[i].retryOptions # <<>>
                   THEN Steps[i].retryOptions[1].maxAttempts ELSE 1))
    /\ [][idx' >= idx]_vars

\* C40 witness: a run has ended after the step deadline gave up the handler
\* in every one of three attempts of its step.
EndedAfterDeadlineInEveryAttempt ==
    /\ pc = "done"
    /\ outcome.status = "rejected"
    /\ outcome.error.name = "TimeoutError"
    /\ Len(calls) = 3
    /\ Len(waits) = 2
    /\ \A j \in 1..3 : Abandoned(j)

====
